---- MODULE Spec2Model ----
(***************************************************************************)
(* The polymorphic vector storage of a segment (VectorStorageEnum and the  *)
(* VectorStorage trait of vector_storage_base.rs).  The enum dispatches    *)
(* every trait method to the wrapped backing; the backings themselves      *)
(* (dense, multi-dense, sparse, and the deletion bitmap) live in other     *)
(* files and are modelled here from their documented contract.             *)
(***************************************************************************)
EXTENDS Integers, Sequences, FiniteSets, TLC

\* ------------------------------------------------------------------ bounds
\* Largest total_vector_count() the model lets a storage grow to.
MaxTotal == 3
\* Longest iterator handed to update_from.
MaxBatch == 3
\* Configured dimension of the dense and multi-dense storages.
Dim == 2

\* Vectors per storage in the sessions that flush and reopen.
MaxDiskTotal == 2
\* Longest list of distinct keys handed to a batch read.
MaxKeys == 2
\* Points the text index builder is given values for.
MaxPoints == 2
\* add_many calls recorded for the points that are indexed.
MaxAdds == 3

\* --------------------------------------------------------------- variants
\* The arms of `enum VectorStorageEnum`, grouped by the shape of backing.
DenseSimpleVariants == {"DenseSimple", "DenseSimpleByte", "DenseSimpleHalf"}

DenseVolatileVariants ==
    {"DenseVolatile", "DenseVolatileByte", "DenseVolatileHalf"}

DenseMemmapVariants == {"DenseMemmap", "DenseMemmapByte", "DenseMemmapHalf"}

DenseAppendableVariants ==
    {"DenseAppendableMemmap", "DenseAppendableMemmapByte",
     "DenseAppendableMemmapHalf", "DenseAppendableInRam",
     "DenseAppendableInRamByte", "DenseAppendableInRamHalf"}

DenseVariants ==
    DenseSimpleVariants \cup DenseVolatileVariants
        \cup DenseMemmapVariants \cup DenseAppendableVariants

SparseVariants == {"SparseSimple", "SparseVolatile", "SparseMmap"}

MultiDenseVariants ==
    {"MultiDenseSimple", "MultiDenseSimpleByte", "MultiDenseSimpleHalf",
     "MultiDenseVolatile", "MultiDenseVolatileByte", "MultiDenseVolatileHalf",
     "MultiDenseAppendableMemmap", "MultiDenseAppendableMemmapByte",
     "MultiDenseAppendableMemmapHalf", "MultiDenseAppendableInRam",
     "MultiDenseAppendableInRamByte", "MultiDenseAppendableInRamHalf"}

VectorStorageEnum == DenseVariants \cup SparseVariants \cup MultiDenseVariants

\* The arms over the legacy key-value store (feature "rocksdb").
SimpleVariants ==
    DenseSimpleVariants \cup {"SparseSimple"}
        \cup {"MultiDenseSimple", "MultiDenseSimpleByte", "MultiDenseSimpleHalf"}

\* The arms whose backing lives in memory only: nothing to flush, no files.
VolatileVariants ==
    DenseVolatileVariants \cup {"SparseVolatile"}
        \cup {"MultiDenseVolatile", "MultiDenseVolatileByte",
              "MultiDenseVolatileHalf"}

\* ---------------------------------------------------------------- helpers
Max(a, b) == IF a >= b THEN a ELSE b

\* usize::saturating_sub
SaturatingSub(a, b) == IF b >= a THEN 0 ELSE a - b

\* Vec::resize(n, fill) restricted to growth: pad `s` with `fill` up to n.
Extend(s, n, fill) ==
    [i \in 1..Max(Len(s), n) |-> IF i <= Len(s) THEN s[i] ELSE fill]

\* Results of the fallible calls; the value of an Ok is a tuple: empty for
\* (), <<b>> for a bool, <<start, end>> for a range.
Ok(v) == [ok |-> TRUE, v |-> v, err |-> "none"]

Err(e) == [ok |-> FALSE, v |-> <<>>, err |-> e]

\* The call has not returned yet.
Pending == [ok |-> FALSE, v |-> <<>>, err |-> "pending"]

\* ------------------------------------------------------- deletion bitmap
\* The growing bit vector of soft-deleted offsets.  Bit `id` is element
\* id + 1 of the sequence; the length grows by doubling and may be smaller or
\* larger than the number of vectors.
RECURSIVE GrowLen(_, _)
GrowLen(len, need) ==
    IF len >= need THEN len
    ELSE GrowLen(IF len = 0 THEN 1 ELSE 2 * len, need)

\* is_set(id): false outside the current length.
BitmapIsSet(bits, id) == id < Len(bits) /\ bits[id + 1]

\* mark(id): grows the vector when needed, sets the bit and reports whether
\* the bit flipped from 0 to 1.
\* Mutant: the bits added by growing are set.
BitmapMark_fill(bits, id) ==
    LET grown == Extend(bits, GrowLen(Len(bits), id + 1), TRUE)
    IN  [bits |-> [grown EXCEPT ![id + 1] = TRUE], flipped |-> ~grown[id + 1]]

BitmapMark(bits, id) ==
    LET grown == Extend(bits, GrowLen(Len(bits), id + 1), FALSE)
    IN  [bits |-> [grown EXCEPT ![id + 1] = TRUE], flipped |-> ~grown[id + 1]]

\* count(): the number of set bits, recounted from the vector.
RECURSIVE BitmapCountOnes(_)
BitmapCountOnes(bits) ==
    IF bits = <<>> THEN 0
    ELSE (IF Head(bits) THEN 1 ELSE 0) + BitmapCountOnes(Tail(bits))

\* ------------------------------------------------------ values of records
\* A dense record of the storage's default element.
DefaultDense(dim) == [i \in 1..dim |-> 0]

\* The sparse vector without entries.
DefaultSparse == [indices |-> <<>>, values |-> <<>>]

\* The offsets entry of a slot that was never written: an empty run.
DefaultOffset == [start |-> 0, count |-> 0]

\* Sparse indices are strictly ascending and parallel to the values.
SparseIsValid(sv) ==
    /\ Len(sv.indices) = Len(sv.values)
    /\ \A i \in 1..(Len(sv.indices) - 1) : sv.indices[i] < sv.indices[i + 1]

\* Results of the reads.
SomeVec(v) == [tag |-> "Some", v |-> v]

NoneVec == [tag |-> "None", v |-> <<>>]

Panic == [tag |-> "Panic", v |-> <<>>]

\* ------------------------------------------------------------ the backings
\* A backing is a record
\*   variant        the arm of VectorStorageEnum that wraps it
\*   dim            the dimension fixed at open (unused by sparse)
\*   vectors        dense: the records; sparse: the records;
\*                  multi-dense: the flat array of inner vectors
\*   offsets        multi-dense: (start, count) per point; otherwise empty
\*   deleted        the deletion bitmap
\*   deleted_count  the incrementally maintained number of set bits
OpenBacking(variant) ==
    [variant |-> variant, dim |-> Dim, vectors |-> <<>>, offsets |-> <<>>,
     deleted |-> <<>>, deleted_count |-> 0]

\* --- soft deletion, common to every backing
Backing_delete_vector(st, key) ==
    LET m == BitmapMark(st.deleted, key)
    IN  [st  |-> [st EXCEPT !.deleted = m.bits,
                            !.deleted_count = IF m.flipped THEN @ + 1 ELSE @],
         res |-> Ok(<<m.flipped>>)]

Backing_is_deleted_vector(st, key) == BitmapIsSet(st.deleted, key)

\* One turn of the loop of update_from: `w` is the result of writing the
\* yielded vector at new_id; the offset is marked when is_deleted is set.
Backing_update_from_mark(w, new_id, is_deleted) ==
    IF ~w.res.ok THEN w
    ELSE [st  |-> IF is_deleted THEN Backing_delete_vector(w.st, new_id).st
                                ELSE w.st,
          res |-> Ok(<<new_id>>)]

Backing_deleted_vector_count(st) == st.deleted_count

Backing_deleted_vector_bitslice(st) == st.deleted

\* --- dense
Dense_total_vector_count(st) == Len(st.vectors)

Dense_get_vector_opt(st, key) ==
    IF key >= Len(st.vectors) THEN NoneVec ELSE SomeVec(st.vectors[key + 1])

Dense_get_vector(st, key) ==
    IF key >= Len(st.vectors) THEN Panic ELSE SomeVec(st.vectors[key + 1])

\* Mutant: the insert also clears the deletion bit of the slot it writes.
Dense_insert_vector_undeletes(st, key, vector) ==
    IF Len(vector) # st.dim
    THEN [st |-> st, res |-> Err("DimensionMismatch")]
    ELSE [st  |-> [st EXCEPT
                     !.vectors = [Extend(@, key + 1, DefaultDense(st.dim))
                                     EXCEPT ![key + 1] = vector],
                     !.deleted = [i \in 1..Len(@) |-> @[i] /\ i # key + 1],
                     !.deleted_count =
                        IF BitmapIsSet(st.deleted, key) THEN @ - 1 ELSE @],
          res |-> Ok(<<>>)]

Dense_insert_vector(st, key, vector) ==
    IF Len(vector) # st.dim
    THEN [st |-> st, res |-> Err("DimensionMismatch")]
    ELSE [st  |-> [st EXCEPT !.vectors =
                      [Extend(@, key + 1, DefaultDense(st.dim))
                          EXCEPT ![key + 1] = vector]],
          res |-> Ok(<<>>)]

\* Mutant: the turn of update_from drops the is_deleted flag.
Dense_update_from_unflagged(st, vector, is_deleted) ==
    Backing_update_from_mark(
        Dense_insert_vector(st, Dense_total_vector_count(st), vector),
        Dense_total_vector_count(st), FALSE)

Dense_update_from(st, vector, is_deleted) ==
    Backing_update_from_mark(
        Dense_insert_vector(st, Dense_total_vector_count(st), vector),
        Dense_total_vector_count(st), is_deleted)

\* --- sparse
Sparse_total_vector_count(st) == Len(st.vectors)

Sparse_get_vector_opt(st, key) ==
    IF key >= Len(st.vectors) THEN NoneVec ELSE SomeVec(st.vectors[key + 1])

Sparse_get_vector(st, key) ==
    IF key >= Len(st.vectors) THEN Panic ELSE SomeVec(st.vectors[key + 1])

\* Mutant: the insert checks the lengths but not the order of the indices.
Sparse_insert_vector_unsorted(st, key, vector) ==
    IF Len(vector.indices) # Len(vector.values)
    THEN [st |-> st, res |-> Err("InvalidSparse")]
    ELSE [st  |-> [st EXCEPT !.vectors =
                      [Extend(@, key + 1, DefaultSparse)
                          EXCEPT ![key + 1] = vector]],
          res |-> Ok(<<>>)]

Sparse_insert_vector(st, key, vector) ==
    IF ~SparseIsValid(vector)
    THEN [st |-> st, res |-> Err("InvalidSparse")]
    ELSE [st  |-> [st EXCEPT !.vectors =
                      [Extend(@, key + 1, DefaultSparse)
                          EXCEPT ![key + 1] = vector]],
          res |-> Ok(<<>>)]

\* Mutant: the record goes to the last written offset, not behind it.
Sparse_update_from_overwrites(st, vector, is_deleted) ==
    Backing_update_from_mark(
        Sparse_insert_vector(st, Max(Sparse_total_vector_count(st), 1) - 1,
                             vector),
        Max(Sparse_total_vector_count(st), 1) - 1, is_deleted)

Sparse_update_from(st, vector, is_deleted) ==
    Backing_update_from_mark(
        Sparse_insert_vector(st, Sparse_total_vector_count(st), vector),
        Sparse_total_vector_count(st), is_deleted)

\* --- multi-dense
MultiDense_total_vector_count(st) == Len(st.offsets)

\* The run of `count` inner vectors starting at `start`.
MultiDense_get_multi(st, key) ==
    LET o == st.offsets[key + 1]
    IN  SubSeq(st.vectors, o.start + 1, o.start + o.count)

MultiDense_get_vector_opt(st, key) ==
    IF key >= Len(st.offsets) THEN NoneVec
    ELSE SomeVec(MultiDense_get_multi(st, key))

MultiDense_get_vector(st, key) ==
    IF key >= Len(st.offsets) THEN Panic
    ELSE SomeVec(MultiDense_get_multi(st, key))

\* Mutant: an insert at an offset that is already written appends the run but
\* keeps the old offsets entry.
MultiDense_insert_vector_keeps_entry(st, key, vector) ==
    IF Len(vector) = 0
    THEN [st |-> st, res |-> Err("EmptyMultiVector")]
    ELSE IF \E i \in 1..Len(vector) : Len(vector[i]) # st.dim
    THEN [st |-> st, res |-> Err("DimensionMismatch")]
    ELSE [st  |-> [st EXCEPT
                     !.vectors = @ \o vector,
                     !.offsets =
                        IF key < Len(@) THEN @
                        ELSE [Extend(@, key + 1, DefaultOffset) EXCEPT ![key + 1] =
                                [start |-> Len(st.vectors),
                                 count |-> Len(vector)]]],
          res |-> Ok(<<>>)]

\* Appends the inner vectors and points offsets[key] at the new run; the run
\* a previous insert at `key` wrote stays in the element array, orphaned.
MultiDense_insert_vector(st, key, vector) ==
    IF Len(vector) = 0
    THEN [st |-> st, res |-> Err("EmptyMultiVector")]
    ELSE IF \E i \in 1..Len(vector) : Len(vector[i]) # st.dim
    THEN [st |-> st, res |-> Err("DimensionMismatch")]
    ELSE [st  |-> [st EXCEPT
                     !.vectors = @ \o vector,
                     !.offsets =
                        [Extend(@, key + 1, DefaultOffset) EXCEPT ![key + 1] =
                            [start |-> Len(st.vectors), count |-> Len(vector)]]],
          res |-> Ok(<<>>)]

MultiDense_update_from(st, vector, is_deleted) ==
    Backing_update_from_mark(
        MultiDense_insert_vector(st, MultiDense_total_vector_count(st), vector),
        MultiDense_total_vector_count(st), is_deleted)

\* --- files of a backing
\* What a backing keeps on disk: the data chunks as one flat array, the
\* per-point directory (offsets of a multi-dense storage, index of a sparse
\* one), the number of records from the manifest and the deletion bit field.
NoFiles == [data |-> <<>>, index |-> <<>>, total |-> 0, bits |-> <<>>]

RECURSIVE Flatten(_)
Flatten(ss) == IF ss = <<>> THEN <<>> ELSE Head(ss) \o Flatten(Tail(ss))

\* Records of `width` elements cut out of a flat array.
Chunked(data, width, n) ==
    [i \in 1..n |-> SubSeq(data, (i - 1) * width + 1, i * width)]

\* The bit field file holds whole bytes.
BitsPerByte == 8

PadBits(bits) ==
    Extend(bits, BitsPerByte * ((Len(bits) + BitsPerByte - 1) \div BitsPerByte),
           FALSE)

\* A sparse record on disk: length prefix, indices block, values block.
SparseEncode(sv) == <<Len(sv.indices)>> \o sv.indices \o sv.values

\* The index entries (byte offset, length) of the records of a blob.
RECURSIVE SparseIndex(_, _)
SparseIndex(svs, off) ==
    IF svs = <<>> THEN <<>>
    ELSE <<[off |-> off, len |-> Len(SparseEncode(Head(svs)))]>>
            \o SparseIndex(Tail(svs), off + Len(SparseEncode(Head(svs))))

SparseDecode(blob, entry) ==
    LET n == blob[entry.off + 1]
    IN  [indices |-> SubSeq(blob, entry.off + 2, entry.off + 1 + n),
         values  |-> SubSeq(blob, entry.off + 2 + n, entry.off + 1 + 2 * n)]

\* flusher()(): the files as the callable leaves them.  A volatile backing
\* has no files and its callable does nothing.
Dense_flusher(st) ==
    IF st.variant \in VolatileVariants THEN NoFiles
    ELSE [data |-> Flatten(st.vectors), index |-> <<>>,
          total |-> Len(st.vectors), bits |-> PadBits(st.deleted)]

Sparse_flusher(st) ==
    IF st.variant \in VolatileVariants THEN NoFiles
    ELSE [data  |-> Flatten([i \in 1..Len(st.vectors) |->
                                SparseEncode(st.vectors[i])]),
          index |-> SparseIndex(st.vectors, 0),
          total |-> Len(st.vectors),
          bits  |-> PadBits(st.deleted)]

MultiDense_flusher(st) ==
    IF st.variant \in VolatileVariants THEN NoFiles
    ELSE [data |-> Flatten(st.vectors), index |-> st.offsets,
          total |-> Len(st.vectors), bits |-> PadBits(st.deleted)]

\* open(path): the backing read back from its files; the deleted count is
\* recounted from the bit field.
Dense_open(variant, dim, files) ==
    [variant |-> variant, dim |-> dim,
     vectors |-> Chunked(files.data, dim, files.total),
     offsets |-> <<>>,
     deleted |-> files.bits, deleted_count |-> BitmapCountOnes(files.bits)]

Sparse_open(variant, dim, files) ==
    [variant |-> variant, dim |-> dim,
     vectors |-> [i \in 1..files.total |->
                     SparseDecode(files.data, files.index[i])],
     offsets |-> <<>>,
     deleted |-> files.bits, deleted_count |-> BitmapCountOnes(files.bits)]

MultiDense_open(variant, dim, files) ==
    [variant |-> variant, dim |-> dim,
     vectors |-> Chunked(files.data, dim, files.total),
     offsets |-> files.index,
     deleted |-> files.bits, deleted_count |-> BitmapCountOnes(files.bits)]

\* --- batch reads
\* vector_storage::common::VECTOR_READ_BATCH_SIZE
VECTOR_READ_BATCH_SIZE == 128

Min(a, b) == IF a <= b THEN a ELSE b

\* maybe_uninit_fill_from(buffer, iter).0: the slots are filled from the
\* iterator until the buffer is full or the iterator ends; the initialized
\* prefix is returned.  `len` is the length of the buffer.
maybe_uninit_fill_from(len, items) == SubSeq(items, 1, Min(len, Len(items)))

\* DenseVectorStorage::get_dense
Dense_get_dense(st, key) == st.vectors[key + 1]

\* Mutant: the keys are taken to be equal to the first one.
DenseVectorStorage_get_dense_batch_first(st, keys, len) ==
    SomeVec(maybe_uninit_fill_from(len,
                [i \in 1..Len(keys) |-> Dense_get_dense(st, keys[1])]))

\* DenseVectorStorage::get_dense_batch, the provided method
DenseVectorStorage_get_dense_batch(st, keys, len) ==
    SomeVec(maybe_uninit_fill_from(len,
                [i \in 1..Len(keys) |-> Dense_get_dense(st, keys[i])]))

\* Mutant: the two debug assertions are left out.
MultiVectorStorage_get_batch_multi_unchecked(st, keys, len, debug_assertions) ==
    SomeVec(maybe_uninit_fill_from(len,
                [i \in 1..Len(keys) |-> MultiDense_get_multi(st, keys[i])]))

\* MultiVectorStorage::get_batch_multi, the provided method; the assertions
\* are compiled in when the build has debug assertions on.
MultiVectorStorage_get_batch_multi(st, keys, len, debug_assertions) ==
    IF debug_assertions /\ Len(keys) # len THEN Panic
    ELSE IF debug_assertions /\ ~(Len(keys) <= VECTOR_READ_BATCH_SIZE) THEN Panic
    ELSE SomeVec(maybe_uninit_fill_from(len,
                    [i \in 1..Len(keys) |-> MultiDense_get_multi(st, keys[i])]))

\* --- the file set of a backing
\* files(): the paths under the directory of the storage.  A volatile
\* backing has none, and the key-value store keeps none of its own.
Backing_files(st) ==
    CASE st.variant \in VolatileVariants \cup SimpleVariants -> {}
      [] st.variant \in DenseVariants \ (VolatileVariants \cup SimpleVariants) ->
            {"chunks/0000.vec", "manifest.json", "deleted.bits", "meta.json"}
      [] st.variant \in SparseVariants \ (VolatileVariants \cup SimpleVariants) ->
            {"blob/0000.bin", "index/0000.idx", "deleted.bits", "meta.json"}
      [] st.variant \in MultiDenseVariants \ (VolatileVariants \cup SimpleVariants) ->
            {"chunks/0000.vec", "offsets/0000.off", "manifest.json",
             "deleted.bits", "meta.json"}

\* immutable_files(): the files that are never written again, which only a
\* storage that is not appendable has.
Backing_immutable_files(st) ==
    IF st.variant \in DenseMemmapVariants
    THEN {"chunks/0000.vec", "manifest.json"}
    ELSE {}

\* versioned_files(): the files that are written again, each with the
\* sequence number `seq` of its last write.
Backing_versioned_files(st, seq) ==
    {<<file, seq>> : file \in Backing_files(st) \ Backing_immutable_files(st)}

\* populate() / clear_cache() of a backing: `io` is what the kernel answers.
Backing_populate(st, io) == io

Backing_clear_cache(st, io) == io

\* The `?` operator on a result of (): go on, or return the error.
Try(res) == IF res.ok THEN Ok(<<>>) ELSE res

\* ----------------------------------------------- VectorStorageEnum dispatch
\* Every method of `impl VectorStorage for VectorStorageEnum` matches on the
\* arm and forwards to the same method of the wrapped backing.
\* Mutant: the dense arms forward to available_vector_count().
VectorStorageEnum_total_vector_count_available(st) ==
    CASE st.variant \in DenseVariants ->
            SaturatingSub(Dense_total_vector_count(st),
                          Backing_deleted_vector_count(st))
      [] st.variant \in SparseVariants -> Sparse_total_vector_count(st)
      [] st.variant \in MultiDenseVariants -> MultiDense_total_vector_count(st)

VectorStorageEnum_total_vector_count(st) ==
    CASE st.variant \in DenseVariants -> Dense_total_vector_count(st)
      [] st.variant \in SparseVariants -> Sparse_total_vector_count(st)
      [] st.variant \in MultiDenseVariants -> MultiDense_total_vector_count(st)

VectorStorageEnum_get_vector(st, key) ==
    CASE st.variant \in DenseVariants -> Dense_get_vector(st, key)
      [] st.variant \in SparseVariants -> Sparse_get_vector(st, key)
      [] st.variant \in MultiDenseVariants -> MultiDense_get_vector(st, key)

\* Mutant: the sparse arms answer None for a soft-deleted offset.
VectorStorageEnum_get_vector_opt_live(st, key) ==
    CASE st.variant \in DenseVariants -> Dense_get_vector_opt(st, key)
      [] st.variant \in SparseVariants ->
            IF Backing_is_deleted_vector(st, key) THEN NoneVec
            ELSE Sparse_get_vector_opt(st, key)
      [] st.variant \in MultiDenseVariants -> MultiDense_get_vector_opt(st, key)

VectorStorageEnum_get_vector_opt(st, key) ==
    CASE st.variant \in DenseVariants -> Dense_get_vector_opt(st, key)
      [] st.variant \in SparseVariants -> Sparse_get_vector_opt(st, key)
      [] st.variant \in MultiDenseVariants -> MultiDense_get_vector_opt(st, key)

\* Mutant: the dense arms pass the key on shifted by one.
VectorStorageEnum_insert_vector_shifted(st, key, vector) ==
    CASE st.variant \in DenseVariants -> Dense_insert_vector(st, key + 1, vector)
      [] st.variant \in SparseVariants -> Sparse_insert_vector(st, key, vector)
      [] st.variant \in MultiDenseVariants ->
            MultiDense_insert_vector(st, key, vector)

VectorStorageEnum_insert_vector(st, key, vector) ==
    CASE st.variant \in DenseVariants -> Dense_insert_vector(st, key, vector)
      [] st.variant \in SparseVariants -> Sparse_insert_vector(st, key, vector)
      [] st.variant \in MultiDenseVariants ->
            MultiDense_insert_vector(st, key, vector)

\* Mutant: the sparse arms forward to is_deleted_vector().
VectorStorageEnum_delete_vector_query(st, key) ==
    CASE st.variant \in DenseVariants -> Backing_delete_vector(st, key)
      [] st.variant \in SparseVariants ->
            [st |-> st, res |-> Ok(<<Backing_is_deleted_vector(st, key)>>)]
      [] st.variant \in MultiDenseVariants -> Backing_delete_vector(st, key)

VectorStorageEnum_delete_vector(st, key) ==
    CASE st.variant \in DenseVariants -> Backing_delete_vector(st, key)
      [] st.variant \in SparseVariants -> Backing_delete_vector(st, key)
      [] st.variant \in MultiDenseVariants -> Backing_delete_vector(st, key)

VectorStorageEnum_is_deleted_vector(st, key) ==
    CASE st.variant \in DenseVariants -> Backing_is_deleted_vector(st, key)
      [] st.variant \in SparseVariants -> Backing_is_deleted_vector(st, key)
      [] st.variant \in MultiDenseVariants -> Backing_is_deleted_vector(st, key)

\* Mutant: the multi-dense arms return the length of the bit slice.
VectorStorageEnum_deleted_vector_count_len(st) ==
    CASE st.variant \in DenseVariants -> Backing_deleted_vector_count(st)
      [] st.variant \in SparseVariants -> Backing_deleted_vector_count(st)
      [] st.variant \in MultiDenseVariants ->
            Len(Backing_deleted_vector_bitslice(st))

VectorStorageEnum_deleted_vector_count(st) ==
    CASE st.variant \in DenseVariants -> Backing_deleted_vector_count(st)
      [] st.variant \in SparseVariants -> Backing_deleted_vector_count(st)
      [] st.variant \in MultiDenseVariants -> Backing_deleted_vector_count(st)

VectorStorageEnum_deleted_vector_bitslice(st) ==
    CASE st.variant \in DenseVariants -> Backing_deleted_vector_bitslice(st)
      [] st.variant \in SparseVariants -> Backing_deleted_vector_bitslice(st)
      [] st.variant \in MultiDenseVariants ->
            Backing_deleted_vector_bitslice(st)

\* One turn of update_from, forwarded like the call itself.
VectorStorageEnum_update_from(st, vector, is_deleted) ==
    CASE st.variant \in DenseVariants -> Dense_update_from(st, vector, is_deleted)
      [] st.variant \in SparseVariants ->
            Sparse_update_from(st, vector, is_deleted)
      [] st.variant \in MultiDenseVariants ->
            MultiDense_update_from(st, vector, is_deleted)

\* Mutant: the dense arms flush, the others hand back a callable that does
\* nothing.
VectorStorageEnum_flusher_dense_only(st, files) ==
    CASE st.variant \in DenseVariants -> Dense_flusher(st)
      [] st.variant \in SparseVariants -> files
      [] st.variant \in MultiDenseVariants -> files

\* flusher(), invoked: the files of the wrapped backing afterwards.
VectorStorageEnum_flusher(st, files) ==
    CASE st.variant \in DenseVariants -> Dense_flusher(st)
      [] st.variant \in SparseVariants -> Sparse_flusher(st)
      [] st.variant \in MultiDenseVariants -> MultiDense_flusher(st)

\* The storage opened again at the same path, as the same variant.
VectorStorageEnum_open(variant, dim, files) ==
    CASE variant \in DenseVariants -> Dense_open(variant, dim, files)
      [] variant \in SparseVariants -> Sparse_open(variant, dim, files)
      [] variant \in MultiDenseVariants -> MultiDense_open(variant, dim, files)

VectorStorageEnum_files(st) ==
    CASE st.variant \in DenseVariants -> Backing_files(st)
      [] st.variant \in SparseVariants -> Backing_files(st)
      [] st.variant \in MultiDenseVariants -> Backing_files(st)

VectorStorageEnum_immutable_files(st) ==
    CASE st.variant \in DenseVariants -> Backing_immutable_files(st)
      [] st.variant \in SparseVariants -> Backing_immutable_files(st)
      [] st.variant \in MultiDenseVariants -> Backing_immutable_files(st)

\* versioned_files(): the impl for VectorStorageEnum does not define it, so
\* the provided method of the trait answers.
VectorStorage_versioned_files(st) == {}

VectorStorageEnum_versioned_files(st) == VectorStorage_versioned_files(st)

\* Mutant: the memory-mapped arms drop the error of the backing.
VectorStorageEnum_populate_swallows(st, io) ==
    CASE st.variant \in SimpleVariants \cup VolatileVariants ->
            [res |-> Ok(<<>>), called |-> FALSE]
      [] OTHER -> [res |-> Ok(<<>>), called |-> TRUE]

\* populate(): `called` tells whether the backing was called.
VectorStorageEnum_populate(st, io) ==
    CASE st.variant \in SimpleVariants \cup VolatileVariants ->
            [res |-> Ok(<<>>), called |-> FALSE]
      [] OTHER -> [res |-> Try(Backing_populate(st, io)), called |-> TRUE]

VectorStorageEnum_clear_cache(st, io) ==
    CASE st.variant \in SimpleVariants \cup VolatileVariants ->
            [res |-> Ok(<<>>), called |-> FALSE]
      [] OTHER -> [res |-> Try(Backing_clear_cache(st, io)), called |-> TRUE]

\* Mutant: plain subtraction instead of the saturating one.
available_vector_count_unchecked(st) ==
    VectorStorageEnum_total_vector_count(st)
        - VectorStorageEnum_deleted_vector_count(st)

\* The trait's provided method: total minus deleted, saturating at zero.
available_vector_count(st) ==
    SaturatingSub(VectorStorageEnum_total_vector_count(st),
                  VectorStorageEnum_deleted_vector_count(st))

\* The dense arms over u8 elements.
DenseByteVariants ==
    {"DenseSimpleByte", "DenseVolatileByte", "DenseMemmapByte",
     "DenseAppendableMemmapByte", "DenseAppendableInRamByte"}

\* The dense arms over f16 elements.
DenseHalfVariants ==
    {"DenseSimpleHalf", "DenseVolatileHalf", "DenseMemmapHalf",
     "DenseAppendableMemmapHalf", "DenseAppendableInRamHalf"}

\* std::mem::size_of::<T>() for the element type of a dense arm: u8, f16
\* or f32.
size_of_T(variant) ==
    IF variant \in DenseByteVariants THEN 1
    ELSE IF variant \in DenseHalfVariants THEN 2
    ELSE 4

\* DenseVectorStorage::size_of_available_vectors_in_bytes
DenseVectorStorage_size_of_available_vectors_in_bytes(st) ==
    available_vector_count(st) * st.dim * size_of_T(st.variant)

\* Mutant: the memory-mapped sparse arm forwards like the others.
VectorStorageEnum_size_of_available_vectors_in_bytes_forwards(st, answer) ==
    IF st.variant \in DenseVariants
    THEN SomeVec(DenseVectorStorage_size_of_available_vectors_in_bytes(st))
    ELSE SomeVec(answer)

\* VectorStorageEnum::size_of_available_vectors_in_bytes; `answer` is what
\* a sparse or multi-dense backing answers to the forwarded call.
VectorStorageEnum_size_of_available_vectors_in_bytes(st, answer) ==
    CASE st.variant = "SparseMmap" -> Panic
      [] st.variant \in DenseVariants ->
            SomeVec(DenseVectorStorage_size_of_available_vectors_in_bytes(st))
      [] OTHER -> SomeVec(answer)

\* ------------------------------------------------------------------ inputs
\* Vectors handed to insert_vector: two of the configured dimension, one too
\* short and one too long.
DenseInputs ==
    {[i \in 1..Dim |-> i], [i \in 1..Dim |-> 4 + i],
     [i \in 1..(Dim - 1) |-> i], [i \in 1..(Dim + 1) |-> i]}

\* Two well-formed sparse vectors, then unsorted indices, a duplicate index
\* and a value list shorter than the index list.
SparseInputs ==
    {[indices |-> <<1, 5>>, values |-> <<1, 2>>],
     [indices |-> <<2>>, values |-> <<3>>],
     [indices |-> <<5, 1>>, values |-> <<1, 2>>],
     [indices |-> <<2, 2>>, values |-> <<1, 2>>],
     [indices |-> <<1, 5>>, values |-> <<1>>]}

\* Two well-formed multivectors, the empty one and one whose inner vector
\* is too short.
MultiDenseInputs ==
    {<<[i \in 1..Dim |-> i], [i \in 1..Dim |-> 4 + i]>>,
     <<[i \in 1..Dim |-> 4 + i]>>,
     <<>>,
     <<[i \in 1..(Dim - 1) |-> i]>>}

Inputs(st) ==
    CASE st.variant \in DenseVariants -> DenseInputs
      [] st.variant \in SparseVariants -> SparseInputs
      [] st.variant \in MultiDenseVariants -> MultiDenseInputs

\* The inputs the storage accepts.
ValidInputs(st) ==
    {v \in Inputs(st) : VectorStorageEnum_insert_vector(st, 0, v).res.ok}

\* Cap on the multi-dense element array, which grows on every insert.
MaxInner == MaxTotal

FitsInner(st, vector) ==
    st.variant \in MultiDenseVariants => Len(st.vectors) + Len(vector) <= MaxInner

\* ------------------------------------------------------ full-text index
\* A text is a sequence of characters; a token is a run of characters.
\* Tokenizer::tokenize_doc of the whitespace tokenizer: the maximal runs of
\* characters other than the blank, in order, duplicates kept.
RECURSIVE Tokenizer_split(_, _, _)
Tokenizer_split(text, run, tokens) ==
    IF text = <<>>
    THEN IF run = <<>> THEN tokens ELSE Append(tokens, run)
    ELSE IF Head(text) = " "
         THEN Tokenizer_split(Tail(text), <<>>,
                              IF run = <<>> THEN tokens ELSE Append(tokens, run))
         ELSE Tokenizer_split(Tail(text), Append(run, Head(text)), tokens)

Tokenizer_tokenize_doc(text) == Tokenizer_split(text, <<>>, <<>>)

\* Option<bool>::None
NoneBool == [tag |-> "None", v |-> FALSE]

\* Option::unwrap_or_default on Option<bool>
unwrap_or_default(opt) == IF opt.tag = "Some" THEN opt.v ELSE FALSE

\* MutableInvertedIndex: `vocab` is token_id_by_str in insertion order, the
\* id of a token being its place (from 0); `postings` has one set of points
\* per token id; `point_to_doc` is Some(map) or None; `positions` maps
\* <<token id, point>> to the places of the token in the document.
MutableInvertedIndex_new(with_positions) ==
    [vocab |-> <<>>, postings |-> <<>>,
     point_to_doc |-> IF with_positions THEN SomeVec(<<>>) ELSE NoneVec,
     positions |-> <<>>]

\* The id of a token of the vocabulary.
TokenId(vocab, token) == (CHOOSE i \in 1..Len(vocab) : vocab[i] = token) - 1

\* register_tokens(&[&str]): unseen tokens get the next ids; the ids of
\* the input are returned in order, duplicates kept.
RECURSIVE MutableInvertedIndex_register_tokens(_, _)
MutableInvertedIndex_register_tokens(index, str_tokens) ==
    IF str_tokens = <<>> THEN [index |-> index, tokens |-> <<>>]
    ELSE LET token == Head(str_tokens)
             seen  == \E i \in 1..Len(index.vocab) : index.vocab[i] = token
             next  == IF seen THEN index
                      ELSE [index EXCEPT !.vocab = Append(@, token),
                                         !.postings = Append(@, {})]
             rest  == MutableInvertedIndex_register_tokens(next,
                                                           Tail(str_tokens))
         IN  [index  |-> rest.index,
              tokens |-> <<TokenId(next.vocab, token)>> \o rest.tokens]

\* Document::new: the token ids in order.
Document_new(tokens) == tokens

\* TokenSet::from_iter: the token ids without order or duplicates.
TokenSet_from_iter(tokens) == {tokens[i] : i \in 1..Len(tokens)}

\* The places (from 0) of a token in a document, ascending.
RECURSIVE PlacesOf(_, _, _)
PlacesOf(document, token, from) ==
    IF from > Len(document) THEN <<>>
    ELSE (IF document[from] = token THEN <<from - 1>> ELSE <<>>)
            \o PlacesOf(document, token, from + 1)

\* A map without the key, and with the key set.
MapWithout(map, key) == [k \in DOMAIN map \ {key} |-> map[k]]

MapWith(map, key, value) ==
    [k \in DOMAIN map \cup {key} |-> IF k = key THEN value ELSE map[k]]

\* index_document(id, document): records the document of the point and the
\* positions of each of its tokens, in place of what was recorded for the
\* point.
MutableInvertedIndex_index_document(index, id, document) ==
    LET kept == {pair \in DOMAIN index.positions : pair[2] # id}
        mine == {<<document[i], id>> : i \in 1..Len(document)}
    IN  [index EXCEPT
            !.point_to_doc = SomeVec(MapWith(@.v, id, document)),
            !.positions = [pair \in kept \cup mine |->
                              IF pair \in mine
                              THEN PlacesOf(document, pair[1], 1)
                              ELSE index.positions[pair]]]

\* index_tokens(id, token_set): the point is put into the postings of each
\* token of the set; where it already is, nothing changes.
MutableInvertedIndex_index_tokens(index, id, token_set) ==
    [index EXCEPT !.postings =
        [t \in 1..Len(@) |-> IF (t - 1) \in token_set THEN @[t] \cup {id}
                                                       ELSE @[t]]]

\* remove(id): the point leaves every postings list, and its document and
\* positions are dropped.
MutableInvertedIndex_remove(index, id) ==
    [index EXCEPT
        !.postings = [t \in 1..Len(@) |-> @[t] \ {id}],
        !.point_to_doc = IF @.tag = "Some" THEN SomeVec(MapWithout(@.v, id))
                                          ELSE @,
        !.positions = [pair \in {q \in DOMAIN @ : q[2] # id} |-> @[pair]]]

\* Mutant: positions are kept whenever the parameter is given, whatever its
\* value.
FullTextMmapIndexBuilder_new_is_some(config, is_on_disk) ==
    [config |-> config, is_on_disk |-> is_on_disk,
     mutable_index |-> MutableInvertedIndex_new(config.phrase_matching.tag = "Some")]

\* FullTextMmapIndexBuilder::new(path, config, is_on_disk)
FullTextMmapIndexBuilder_new(config, is_on_disk) ==
    [config |-> config, is_on_disk |-> is_on_disk,
     mutable_index |->
        MutableInvertedIndex_new(unwrap_or_default(config.phrase_matching))]

\* --- finalize
\* The elements of a set of numbers in ascending order.
RECURSIVE SortedSeq(_)
SortedSeq(set) ==
    IF set = {} THEN <<>>
    ELSE LET least == CHOOSE x \in set : \A y \in set : x <= y
         IN  <<least>> \o SortedSeq(set \ {least})

\* ImmutableInvertedIndex::from(mutable_index): the vocabulary by token id,
\* the postings of each token as a sorted array, and the positions per
\* posting when the mutable index recorded documents.
ImmutableInvertedIndex_from(mutable_index) ==
    [vocab    |-> mutable_index.vocab,
     postings |-> [t \in 1..Len(mutable_index.postings) |->
                      SortedSeq(mutable_index.postings[t])],
     has_positions |-> mutable_index.point_to_doc.tag = "Some",
     positions |-> mutable_index.positions]

\* The files of the mmap form of an immutable index.
MmapInvertedIndex_file_set(has_positions) ==
    {"vocab.dat", "vocab.idx", "postings.dat", "postings.idx",
     "deleted.bits", "meta.json"}
        \cup (IF has_positions THEN {"positions.dat", "positions.idx"} ELSE {})

\* std::fs::create_dir_all(path); `io` is what the file system answers.
create_dir_all(dir, io) ==
    IF io.ok THEN [fs |-> [dir EXCEPT !.dir = TRUE], res |-> Ok(<<>>)]
    ELSE [fs |-> dir, res |-> io]

\* MmapInvertedIndex::create(path, immutable): all files are written
\* atomically (temp then rename), or none when the file system fails.
MmapInvertedIndex_create(dir, immutable, io) ==
    IF io.ok
    THEN [fs  |-> [dir EXCEPT
                      !.files = @ \cup MmapInvertedIndex_file_set(
                                          immutable.has_positions),
                      !.content = immutable,
                      !.deleted = {}],
          res |-> Ok(<<>>)]
    ELSE [fs |-> dir, res |-> io]

\* MmapInvertedIndex::open(path, populate, has_positions): the files are
\* mapped and the meta is validated against the flag.
MmapInvertedIndex_open(dir, populate, has_positions, io) ==
    IF ~io.ok THEN io
    ELSE IF \/ ~dir.dir
            \/ dir.content = <<>>
            \/ ~(MmapInvertedIndex_file_set(has_positions) \subseteq dir.files)
         THEN Err("Io")
    ELSE IF dir.content.has_positions # has_positions
         THEN Err("FormatMismatch")
    ELSE Ok(<<[content |-> dir.content, populate |-> populate,
               has_positions |-> has_positions, deleted |-> dir.deleted,
               files |-> MmapInvertedIndex_file_set(has_positions)]>>)

\* Mutant: positions are expected whenever the parameter is given.
MmapFullTextIndex_open_params_is_some(config, is_on_disk) ==
    [populate |-> ~is_on_disk,
     has_positions |-> config.phrase_matching.tag = "Some"]

\* The parameters MmapFullTextIndex::open hands to MmapInvertedIndex::open.
MmapFullTextIndex_open_params(config, is_on_disk) ==
    [populate |-> ~is_on_disk,
     has_positions |-> config.phrase_matching = SomeVec(TRUE)]

\* The parameters finalize hands to MmapInvertedIndex::open.
FullTextMmapIndexBuilder_finalize_params(config, is_on_disk) ==
    [populate |-> ~is_on_disk,
     has_positions |-> unwrap_or_default(config.phrase_matching)]

\* MmapFullTextIndex::open(path, config, is_on_disk)
MmapFullTextIndex_open(dir, config, is_on_disk, io) ==
    LET p == MmapFullTextIndex_open_params(config, is_on_disk)
        inverted_index ==
            MmapInvertedIndex_open(dir, p.populate, p.has_positions, io)
    IN  IF ~inverted_index.ok THEN inverted_index
        ELSE Ok(<<[inverted_index |-> inverted_index.v[1]]>>)

\* What the file system answers to the three steps of finalize.
FinalizeIo(create_dir, create, open) ==
    [create_dir_all |-> create_dir, create |-> create, open |-> open]

\* Mutant: a failure of the write is not looked at, the reopen follows.
FullTextMmapIndexBuilder_finalize_unchecked(b, dir, io) ==
    LET immutable == ImmutableInvertedIndex_from(b.mutable_index)
        made == create_dir_all(dir, io.create_dir_all)
        written == MmapInvertedIndex_create(made.fs, immutable, io.create)
        p == FullTextMmapIndexBuilder_finalize_params(b.config, b.is_on_disk)
        inverted_index == MmapInvertedIndex_open(written.fs, p.populate,
                                                 p.has_positions, io.open)
        mmap_index == [inverted_index |-> inverted_index.v[1]]
    IN  IF ~made.res.ok
        THEN [fs |-> made.fs, res |-> made.res,
              steps |-> <<"from", "create_dir_all">>]
        ELSE IF ~inverted_index.ok
        THEN [fs |-> written.fs, res |-> inverted_index,
              steps |-> <<"from", "create_dir_all", "create", "open">>]
        ELSE [fs |-> written.fs,
              res |-> Ok(<<IF b.is_on_disk
                           THEN [variant |-> "Mmap", mmap_index |-> mmap_index]
                           ELSE [variant |-> "Immutable",
                                 inverted_index |-> immutable,
                                 storage |-> mmap_index]>>),
              steps |-> <<"from", "create_dir_all", "create", "open">>]

\* Mutant: the mmap-backed index is returned in both modes.
FullTextMmapIndexBuilder_finalize_mmap(b, dir, io) ==
    LET immutable == ImmutableInvertedIndex_from(b.mutable_index)
        made == create_dir_all(dir, io.create_dir_all)
        written == MmapInvertedIndex_create(made.fs, immutable, io.create)
        p == FullTextMmapIndexBuilder_finalize_params(b.config, b.is_on_disk)
        inverted_index == MmapInvertedIndex_open(written.fs, p.populate,
                                                 p.has_positions, io.open)
        mmap_index == [inverted_index |-> inverted_index.v[1]]
    IN  IF ~made.res.ok
        THEN [fs |-> made.fs, res |-> made.res,
              steps |-> <<"from", "create_dir_all">>]
        ELSE IF ~written.res.ok
        THEN [fs |-> written.fs, res |-> written.res,
              steps |-> <<"from", "create_dir_all", "create">>]
        ELSE IF ~inverted_index.ok
        THEN [fs |-> written.fs, res |-> inverted_index,
              steps |-> <<"from", "create_dir_all", "create", "open">>]
        ELSE [fs |-> written.fs,
              res |-> Ok(<<[variant |-> "Mmap", mmap_index |-> mmap_index]>>),
              steps |-> <<"from", "create_dir_all", "create", "open">>]

\* FieldIndexBuilderTrait::finalize for FullTextMmapIndexBuilder: the files
\* afterwards, the result, and the steps that ran.
FullTextMmapIndexBuilder_finalize(b, dir, io) ==
    LET immutable == ImmutableInvertedIndex_from(b.mutable_index)
        made == create_dir_all(dir, io.create_dir_all)
        written == MmapInvertedIndex_create(made.fs, immutable, io.create)
        p == FullTextMmapIndexBuilder_finalize_params(b.config, b.is_on_disk)
        inverted_index == MmapInvertedIndex_open(written.fs, p.populate,
                                                 p.has_positions, io.open)
        mmap_index == [inverted_index |-> inverted_index.v[1]]
    IN  IF ~made.res.ok
        THEN [fs |-> made.fs, res |-> made.res,
              steps |-> <<"from", "create_dir_all">>]
        ELSE IF ~written.res.ok
        THEN [fs |-> written.fs, res |-> written.res,
              steps |-> <<"from", "create_dir_all", "create">>]
        ELSE IF ~inverted_index.ok
        THEN [fs |-> written.fs, res |-> inverted_index,
              steps |-> <<"from", "create_dir_all", "create", "open">>]
        ELSE [fs |-> written.fs,
              res |-> Ok(<<IF b.is_on_disk
                           THEN [variant |-> "Mmap", mmap_index |-> mmap_index]
                           ELSE [variant |-> "Immutable",
                                 inverted_index |-> immutable,
                                 storage |-> mmap_index]>>),
              steps |-> <<"from", "create_dir_all", "create", "open">>]

\* Mutant: the point is also taken out of the postings.
MmapFullTextIndex_remove_point_postings(mmap_index, id) ==
    [mmap_index EXCEPT
        !.inverted_index.deleted = @ \cup {id},
        !.inverted_index.content.postings =
            [t \in 1..Len(@) |->
                SortedSeq({@[t][i] : i \in 1..Len(@[t])} \ {id})]]

\* MmapFullTextIndex::remove_point(id): MmapInvertedIndex::remove sets the
\* deletion bit of the point.
MmapFullTextIndex_remove_point(mmap_index, id) ==
    [mmap_index EXCEPT !.inverted_index.deleted = @ \cup {id}]

\* MmapFullTextIndex::files()
MmapFullTextIndex_files(mmap_index) == mmap_index.inverted_index.files

\* The sequence back to front.
Reverse(seq) == [i \in 1..Len(seq) |-> seq[Len(seq) + 1 - i]]

\* Mutant: the tokens are registered from the last one to the first.
FullTextMmapIndexBuilder_add_many_backwards(b, id, values, io) ==
    IF values = <<>> THEN [b |-> b, res |-> Ok(<<>>)]
    ELSE LET str_tokens == Flatten([i \in 1..Len(values) |->
                                       Tokenizer_tokenize_doc(values[i])])
             reg == MutableInvertedIndex_register_tokens(b.mutable_index,
                                                         Reverse(str_tokens))
             tokens == Reverse(reg.tokens)
             documented ==
                IF reg.index.point_to_doc.tag = "Some"
                THEN MutableInvertedIndex_index_document(
                        reg.index, id, Document_new(tokens))
                ELSE reg.index
         IN  [b |-> [b EXCEPT !.mutable_index =
                        MutableInvertedIndex_index_tokens(
                            documented, id, TokenSet_from_iter(tokens))],
              res |-> Ok(<<>>)]

\* Mutant: the token set is indexed only when no document is.
FullTextMmapIndexBuilder_add_many_either(b, id, values, io) ==
    IF values = <<>> THEN [b |-> b, res |-> Ok(<<>>)]
    ELSE LET str_tokens == Flatten([i \in 1..Len(values) |->
                                       Tokenizer_tokenize_doc(values[i])])
             reg == MutableInvertedIndex_register_tokens(b.mutable_index,
                                                         str_tokens)
         IN  [b |-> [b EXCEPT !.mutable_index =
                        IF reg.index.point_to_doc.tag = "Some"
                        THEN MutableInvertedIndex_index_document(
                                reg.index, id, Document_new(reg.tokens))
                        ELSE MutableInvertedIndex_index_tokens(
                                reg.index, id, TokenSet_from_iter(reg.tokens))],
              res |-> Ok(<<>>)]

\* Mutant: a failing call puts the builder back as it was.
FullTextMmapIndexBuilder_add_many_rollback(b, id, values, io) ==
    IF values = <<>> THEN [b |-> b, res |-> Ok(<<>>)]
    ELSE LET str_tokens == Flatten([i \in 1..Len(values) |->
                                       Tokenizer_tokenize_doc(values[i])])
             reg == MutableInvertedIndex_register_tokens(b.mutable_index,
                                                         str_tokens)
             with_doc == reg.index.point_to_doc.tag = "Some"
             documented ==
                IF with_doc
                THEN MutableInvertedIndex_index_document(
                        reg.index, id, Document_new(reg.tokens))
                ELSE reg.index
         IN  IF with_doc /\ ~io.index_document.ok
             THEN [b |-> b, res |-> io.index_document]
             ELSE IF ~io.index_tokens.ok
             THEN [b |-> b, res |-> io.index_tokens]
             ELSE [b |-> [b EXCEPT !.mutable_index =
                            MutableInvertedIndex_index_tokens(
                                documented, id,
                                TokenSet_from_iter(reg.tokens))],
                   res |-> Ok(<<>>)]

\* ValueIndexer::add_many for FullTextMmapIndexBuilder; `io` is what
\* index_document and index_tokens answer, and a call that answers with an
\* error has changed nothing.
FullTextMmapIndexBuilder_add_many(b, id, values, io) ==
    IF values = <<>> THEN [b |-> b, res |-> Ok(<<>>)]
    ELSE LET str_tokens == Flatten([i \in 1..Len(values) |->
                                       Tokenizer_tokenize_doc(values[i])])
             reg == MutableInvertedIndex_register_tokens(b.mutable_index,
                                                         str_tokens)
             with_doc == reg.index.point_to_doc.tag = "Some"
             documented ==
                IF with_doc
                THEN MutableInvertedIndex_index_document(
                        reg.index, id, Document_new(reg.tokens))
                ELSE reg.index
         IN  IF with_doc /\ ~io.index_document.ok
             THEN [b |-> [b EXCEPT !.mutable_index = reg.index],
                   res |-> io.index_document]
             ELSE IF ~io.index_tokens.ok
             THEN [b |-> [b EXCEPT !.mutable_index = documented],
                   res |-> io.index_tokens]
             ELSE [b |-> [b EXCEPT !.mutable_index =
                            MutableInvertedIndex_index_tokens(
                                documented, id,
                                TokenSet_from_iter(reg.tokens))],
                   res |-> Ok(<<>>)]

\* Mutant: a point that is in no postings list is reported as an error.
FullTextMmapIndexBuilder_remove_point_checked(b, id) ==
    IF \A t \in 1..Len(b.mutable_index.postings) :
            id \notin b.mutable_index.postings[t]
    THEN [b |-> b, res |-> Err("NotFound")]
    ELSE [b |-> [b EXCEPT !.mutable_index = MutableInvertedIndex_remove(@, id)],
          res |-> Ok(<<>>)]

\* ValueIndexer::remove_point for FullTextMmapIndexBuilder
FullTextMmapIndexBuilder_remove_point(b, id) ==
    [b |-> [b EXCEPT !.mutable_index = MutableInvertedIndex_remove(@, id)],
     res |-> Ok(<<>>)]

\* The path of the text index before finalize: no directory, no file.
NoDir == [dir |-> FALSE, files |-> {}, content |-> <<>>, deleted |-> {}]

\* No text index was returned or opened.
NoTextIndex == [variant |-> "None"]

\* No text index is being built.
NoBuilder ==
    [config |-> [phrase_matching |-> NoneBool], is_on_disk |-> FALSE,
     mutable_index |-> <<>>]

\* ------------------------------------------------------------------- state
VARIABLES
    storage,      \* the VectorStorageEnum value: the wrapped backing
    ret,          \* the last call: operation and result
    upd,          \* the latest update_from call, running or returned
    stopped,      \* the AtomicBool handed to the update_from call in progress
    max_written,  \* highest offset ever written, -1 when none was
    disk,         \* the files of the backing as last flushed
    builder,      \* the FullTextMmapIndexBuilder
    given,        \* per point, the value lists add_many was called with
                  \* since the point was last removed
    fs,           \* the directory of the text index and the files in it
    text_index    \* the FullTextIndex that finalize returned or open opened

vars == <<storage, ret, upd, stopped, max_written, disk, builder, given, fs, text_index>>

Call(op, res) == [op |-> op, res |-> res]

\* No update_from call was made since the last call of another operation.
NoUpdate == [active |-> FALSE, start |-> 0, yielded |-> <<>>, more |-> FALSE]

Total == VectorStorageEnum_total_vector_count(storage)

\* The offsets the calls are tried on: every slot and the one past the cap.
Keys == 0..MaxTotal

\* The storages that get opened: of each kind of backing one arm held in
\* memory and one memory-mapped arm, covering the three element types.  The
\* arms of a kind differ in nothing but the name and the element type.
OpenedVariants ==
    {"DenseVolatile", "DenseMemmapByte",
     "SparseVolatile", "SparseMmap",
     "MultiDenseVolatile", "MultiDenseAppendableMemmapHalf"}

Init ==
    /\ storage \in {OpenBacking(v) : v \in OpenedVariants}
    /\ ret = Call("open", Ok(<<>>))
    /\ upd = NoUpdate
    /\ stopped = FALSE
    /\ max_written = -1
    /\ disk = NoFiles
    /\ builder = NoBuilder
    /\ given = <<>>
    /\ fs = NoDir
    /\ text_index = NoTextIndex

\* insert_vector(key, vector, hw_counter)
InsertVector(key, vector) ==
    /\ ~upd.active
    /\ key <= Total + 1
    /\ key < MaxTotal
    /\ FitsInner(storage, vector)
    /\ LET r == VectorStorageEnum_insert_vector(storage, key, vector)
       IN  /\ storage' = r.st
           /\ ret' = Call("insert_vector", r.res)
           /\ max_written' = IF r.res.ok THEN Max(max_written, key)
                                         ELSE max_written
    /\ upd' = NoUpdate
    /\ UNCHANGED <<stopped, disk, builder, given, fs, text_index>>

\* delete_vector(key), tried on every written offset and on the first offset
\* past the end.
DeleteVector(key) ==
    /\ ~upd.active
    /\ key <= Total
    /\ LET r == VectorStorageEnum_delete_vector(storage, key)
       IN  /\ storage' = r.st
           /\ ret' = Call("delete_vector", r.res)
    /\ upd' = NoUpdate
    /\ UNCHANGED <<stopped, max_written, disk, builder, given, fs, text_index>>

\* Mutant: the flag is never seen set.
check_process_stopped_ignored(flag) == Ok(<<>>)

\* The poll of the cancellation flag at the top of a turn of the loop.
check_process_stopped(flag) == IF flag THEN Err("Cancelled") ELSE Ok(<<>>)

\* The bounds leave room for the iterator to yield one more record.
HasRoom(st, taken) ==
    /\ taken < MaxBatch
    /\ VectorStorageEnum_total_vector_count(st) < MaxTotal
    /\ \E vector \in ValidInputs(st) : FitsInner(st, vector)

\* update_from(other_vectors, stopped): entry, start_index is the total.
\* `more` tells whether the iterator has another record to yield.
UpdateFromBegin ==
    /\ ~upd.active
    /\ \E more \in {FALSE, HasRoom(storage, 0)} :
          upd' = [active |-> TRUE, start |-> Total, yielded |-> <<>>,
                  more |-> more]
    /\ stopped' = FALSE
    /\ ret' = Call("update_from", Pending)
    /\ UNCHANGED <<storage, max_written, disk, builder, given, fs, text_index>>

\* One turn of the loop with the flag clear: the iterator yields
\* (vector, is_deleted), the vector is written at the next offset and the
\* offset is marked when is_deleted is set.
UpdateFromRecord(vector, is_deleted) ==
    /\ upd.active
    /\ upd.more
    /\ check_process_stopped(stopped).ok
    /\ FitsInner(storage, vector)
    /\ LET r == VectorStorageEnum_update_from(storage, vector, is_deleted)
       IN  /\ r.res.ok
           /\ storage' = r.st
           /\ max_written' = Max(max_written, r.res.v[1])
           /\ \E more \in {FALSE, HasRoom(r.st, Len(upd.yielded) + 1)} :
                 upd' = [upd EXCEPT
                           !.yielded = Append(@, [vector |-> vector,
                                                  is_deleted |-> is_deleted]),
                           !.more = more]
    /\ UNCHANGED <<ret, stopped, disk, builder, given, fs, text_index>>

\* One turn of the loop with the flag set: the iterator yielded a record,
\* the poll fails and the call ends with the cancellation error; what was
\* written stays.  The flag is the caller's argument and is gone with the
\* call.
UpdateFromCancelled ==
    /\ upd.active
    /\ upd.more
    /\ ~check_process_stopped(stopped).ok
    /\ ret' = Call("update_from", check_process_stopped(stopped))
    /\ upd' = [upd EXCEPT !.active = FALSE, !.more = FALSE]
    /\ stopped' = FALSE
    /\ UNCHANGED <<storage, max_written, disk, builder, given, fs, text_index>>

\* The iterator is exhausted: the call returns start_index..end_index.
UpdateFromReturn ==
    /\ upd.active
    /\ ~upd.more
    /\ ret' = Call("update_from", Ok(<<upd.start, Total>>))
    /\ upd' = [upd EXCEPT !.active = FALSE]
    /\ stopped' = FALSE
    /\ UNCHANGED <<storage, max_written, disk, builder, given, fs, text_index>>

\* Another thread sets the cancellation flag while update_from runs.
SetStopped ==
    /\ upd.active
    /\ ~stopped
    /\ stopped' = TRUE
    /\ UNCHANGED <<storage, ret, upd, max_written, disk, builder, given, fs, text_index>>

\* flusher()(): the deferred callable persists the files of the backing; the
\* storage in memory is not touched.
Flusher ==
    /\ ~upd.active
    /\ disk' = VectorStorageEnum_flusher(storage, disk)
    /\ ret' = Call("flusher", Ok(<<>>))
    /\ upd' = NoUpdate
    /\ UNCHANGED <<storage, stopped, max_written, builder, given, fs, text_index>>

\* The process ends, with or without a flush since the last write, and the
\* storage is opened again from its files.
Reopen ==
    /\ ~upd.active
    /\ storage.variant \notin VolatileVariants
    /\ storage' = VectorStorageEnum_open(storage.variant, storage.dim, disk)
    /\ ret' = Call("open", Ok(<<>>))
    /\ upd' = NoUpdate
    /\ max_written' =
            VectorStorageEnum_total_vector_count(
                VectorStorageEnum_open(storage.variant, storage.dim, disk)) - 1
    /\ UNCHANGED <<stopped, disk, builder, given, fs, text_index>>

Next ==
    \/ \E key \in Keys : \E vector \in Inputs(storage) :
            InsertVector(key, vector)
    \/ \E key \in Keys : DeleteVector(key)
    \/ UpdateFromBegin
    \/ \E vector \in ValidInputs(storage) : \E is_deleted \in BOOLEAN :
            UpdateFromRecord(vector, is_deleted)
    \/ UpdateFromCancelled
    \/ UpdateFromReturn
    \/ SetStopped
    \/ (storage.variant \in VolatileVariants /\ Flusher)

\* One writer session: the calls of the write path in any order.  The
\* flusher of a storage that has files is exercised, with reopening, in
\* SpecDisk below.
Spec == Init /\ [][Next]_vars

\* The storages that have files.
PersistedVariants == OpenedVariants \ VolatileVariants

InitDisk ==
    /\ Init
    /\ storage.variant \in PersistedVariants

\* The offsets written in these sessions.
DiskKeys == 0..(MaxDiskTotal - 1)

NextDisk ==
    \/ \E key \in DiskKeys : \E vector \in ValidInputs(storage) :
            InsertVector(key, vector)
    \/ \E key \in DiskKeys : DeleteVector(key)
    \/ Flusher
    \/ Reopen

\* Sessions of a persisted storage: writes, flushes, and reopening from the
\* files at any moment.
SpecDisk == InitDisk /\ [][NextDisk]_vars

\* size_of_available_vectors_in_bytes()
SizeOfAvailableVectorsInBytes(answer) ==
    /\ ret' = [op |-> "size_of_available_vectors_in_bytes",
               res |-> VectorStorageEnum_size_of_available_vectors_in_bytes(
                            storage, answer),
               answer |-> answer]
    /\ UNCHANGED <<storage, upd, stopped, max_written, disk, builder, given, fs, text_index>>

\* What a sparse or multi-dense backing may answer for its size in bytes.
SizeAnswers == {0, Dim * MaxDiskTotal}

\* The storages whose size is asked for: the opened ones and a dense arm
\* over f16, so that each element size occurs.
SizeVariants == OpenedVariants \cup {"DenseAppendableInRamHalf"}

InitSize ==
    /\ storage \in {OpenBacking(v) : v \in SizeVariants}
    /\ ret = Call("open", Ok(<<>>))
    /\ upd = NoUpdate
    /\ stopped = FALSE
    /\ max_written = -1
    /\ disk = NoFiles
    /\ builder = NoBuilder
    /\ given = <<>>
    /\ fs = NoDir
    /\ text_index = NoTextIndex

NextSize ==
    \/ \E key \in DiskKeys : \E vector \in ValidInputs(storage) :
            InsertVector(key, vector)
    \/ \E key \in DiskKeys : DeleteVector(key)
    \/ \E answer \in SizeAnswers : SizeOfAvailableVectorsInBytes(answer)

\* Writes, deletions and the question for the size in bytes, in any order.
SpecSize == InitSize /\ [][NextSize]_vars

\* ------------------------------------------- file set and page cache
\* files()
Files ==
    /\ ~upd.active
    /\ ret' = Call("files", VectorStorageEnum_files(storage))
    /\ upd' = NoUpdate
    /\ UNCHANGED <<storage, stopped, max_written, disk, builder, given, fs, text_index>>

\* immutable_files()
ImmutableFiles ==
    /\ ~upd.active
    /\ ret' = Call("immutable_files", VectorStorageEnum_immutable_files(storage))
    /\ upd' = NoUpdate
    /\ UNCHANGED <<storage, stopped, max_written, disk, builder, given, fs, text_index>>

\* versioned_files(); `seq` is the sequence number the files were last
\* written at, which only the backing knows.
VersionedFiles(seq) ==
    /\ ~upd.active
    /\ ret' = [op |-> "versioned_files",
               res |-> VectorStorageEnum_versioned_files(storage),
               seq |-> seq]
    /\ upd' = NoUpdate
    /\ UNCHANGED <<storage, stopped, max_written, disk, builder, given, fs, text_index>>

\* populate(); `io` is what the backing would answer.
Populate(io) ==
    /\ ~upd.active
    /\ LET r == VectorStorageEnum_populate(storage, io)
       IN  ret' = [op |-> "populate", res |-> r.res, called |-> r.called,
                   io |-> io]
    /\ upd' = NoUpdate
    /\ UNCHANGED <<storage, stopped, max_written, disk, builder, given, fs, text_index>>

\* clear_cache()
ClearCache(io) ==
    /\ ~upd.active
    /\ LET r == VectorStorageEnum_clear_cache(storage, io)
       IN  ret' = [op |-> "clear_cache", res |-> r.res, called |-> r.called,
                   io |-> io]
    /\ upd' = NoUpdate
    /\ UNCHANGED <<storage, stopped, max_written, disk, builder, given, fs, text_index>>

\* What the kernel answers to the advice on the mapped pages.
IoResults == {Ok(<<>>), Err("Io")}

\* Sequence numbers of the last write of a file.
SeqNumbers == 0..1

\* The storages asked for their files and their page cache: the opened ones,
\* one over the key-value store and one appendable and held in memory.
FilesVariants == OpenedVariants \cup {"DenseSimple", "DenseAppendableInRam"}

InitFiles ==
    /\ storage \in {OpenBacking(v) : v \in FilesVariants}
    /\ ret = Call("open", Ok(<<>>))
    /\ upd = NoUpdate
    /\ stopped = FALSE
    /\ max_written = -1
    /\ disk = NoFiles
    /\ builder = NoBuilder
    /\ given = <<>>
    /\ fs = NoDir
    /\ text_index = NoTextIndex

NextFiles ==
    \/ \E vector \in ValidInputs(storage) : InsertVector(Total, vector)
    \/ \E key \in DiskKeys : DeleteVector(key)
    \/ Files
    \/ ImmutableFiles
    \/ \E seq \in SeqNumbers : VersionedFiles(seq)
    \/ \E io \in IoResults : Populate(io)
    \/ \E io \in IoResults : ClearCache(io)

\* A storage filled in offset order, with deletions, whose files are
\* enumerated and whose pages are populated and dropped at any moment.
SpecFiles == InitFiles /\ [][NextFiles]_vars

\* ------------------------------------------------- building a text index
Points == 0..(MaxPoints - 1)

\* "a b a", "b", "c a" and a blank.
TextABA == <<"a", " ", "b", " ", "a">>

TextB == <<"b">>

TextCA == <<"c", " ", "a">>

TextBlank == <<" ">>

\* The value lists add_many is called with: no value, one value with a
\* repeated token, two values, one value without a token.
ValueLists == {<<>>, <<TextABA>>, <<TextB, TextCA>>, <<TextBlank>>}

\* TextIndexParams::phrase_matching: Option<bool>
PhraseMatching == {NoneBool, SomeVec(FALSE), SomeVec(TRUE)}

\* add_many calls recorded in `given`.
RECURSIVE GivenCalls(_)
GivenCalls(ps) ==
    IF ps = {} THEN 0
    ELSE LET p == CHOOSE q \in ps : TRUE
         IN  Len(given[p]) + GivenCalls(ps \ {p})

\* index_document and index_tokens both succeed.
CalleesOk == [index_document |-> Ok(<<>>), index_tokens |-> Ok(<<>>)]

\* What index_document and index_tokens may answer.
CalleeAnswers ==
    {[index_document |-> d, index_tokens |-> t] :
        d \in IoResults, t \in IoResults}

\* add_many(id, values, hw_counter)
AddMany(id, values, io) ==
    /\ GivenCalls(Points) < MaxAdds
    /\ LET r == FullTextMmapIndexBuilder_add_many(builder, id, values, io)
       IN  /\ builder' = r.b
           /\ ret' = Call("add_many", r.res)
    /\ given' = [given EXCEPT ![id] = Append(@, values)]
    /\ UNCHANGED <<storage, upd, stopped, max_written, disk, fs, text_index>>

\* remove_point(id)
RemovePoint(id) ==
    /\ LET r == FullTextMmapIndexBuilder_remove_point(builder, id)
       IN  /\ builder' = r.b
           /\ ret' = Call("remove_point", r.res)
    /\ given' = [given EXCEPT ![id] = <<>>]
    /\ UNCHANGED <<storage, upd, stopped, max_written, disk, fs, text_index>>

InitText ==
    /\ storage = OpenBacking("DenseVolatile")
    /\ ret = Call("new", Ok(<<>>))
    /\ upd = NoUpdate
    /\ stopped = FALSE
    /\ max_written = -1
    /\ disk = NoFiles
    /\ \E phrase_matching \in PhraseMatching :
            builder = FullTextMmapIndexBuilder_new(
                        [phrase_matching |-> phrase_matching], FALSE)
    /\ given = [p \in Points |-> <<>>]
    /\ fs = NoDir
    /\ text_index = NoTextIndex

NextText ==
    \/ \E id \in Points : \E values \in ValueLists :
            AddMany(id, values, CalleesOk)
    \/ \E id \in Points : RemovePoint(id)

\* A builder given values and removals in any order, before finalize;
\* index_document and index_tokens succeed.
SpecText == InitText /\ [][NextText]_vars

NextAddMany ==
    \/ \E id \in Points : \E values \in ValueLists : \E io \in CalleeAnswers :
            /\ given[id] = <<>>
            /\ AddMany(id, values, io)
    \/ \E id \in Points : RemovePoint(id)

\* A builder given values once per point between removals, where
\* index_document and index_tokens may answer with an error.
SpecAddMany == InitText /\ [][NextAddMany]_vars

\* --- finalize, open and the opened index
\* finalize(): the builder is consumed whatever the outcome; `ret` keeps the
\* builder that was finalized, the answers of the file system and the steps.
Finalize(io) ==
    /\ builder # NoBuilder
    /\ LET r == FullTextMmapIndexBuilder_finalize(builder, fs, io)
       IN  /\ fs' = r.fs
           /\ text_index' = IF r.res.ok THEN r.res.v[1] ELSE NoTextIndex
           /\ ret' = [op |-> "finalize",
                      res |-> IF r.res.ok THEN Ok(<<>>) ELSE r.res,
                      steps |-> r.steps, b |-> builder, io |-> io,
                      dir |-> fs]
    /\ builder' = NoBuilder
    /\ UNCHANGED <<storage, upd, stopped, max_written, disk, given>>

\* MmapFullTextIndex::open(path, config, is_on_disk) on the path the builder
\* wrote to; the index held before is dropped when the call succeeds.
MmapOpen(config, is_on_disk, io) ==
    /\ builder = NoBuilder
    /\ LET r == MmapFullTextIndex_open(fs, config, is_on_disk, io)
       IN  /\ text_index' = IF r.ok
                             THEN [variant |-> "Mmap", mmap_index |-> r.v[1]]
                             ELSE text_index
           /\ ret' = [op |-> "open",
                      res |-> IF r.ok THEN Ok(<<>>) ELSE r,
                      config |-> config, is_on_disk |-> is_on_disk]
    /\ UNCHANGED <<storage, upd, stopped, max_written, disk, builder, given, fs>>

\* MmapFullTextIndex::remove_point(id) on the opened index; the deletion
\* bits are a mapping of deleted.bits, so the file sees the bit as well.
MmapRemovePoint(id) ==
    /\ text_index.variant = "Mmap"
    /\ text_index' = [text_index EXCEPT
                         !.mmap_index = MmapFullTextIndex_remove_point(@, id)]
    /\ fs' = [fs EXCEPT
                 !.deleted = text_index'.mmap_index.inverted_index.deleted]
    /\ ret' = [op |-> "mmap_remove_point", res |-> Ok(<<>>), id |-> id,
               before |-> text_index.mmap_index]
    /\ UNCHANGED <<storage, upd, stopped, max_written, disk, builder, given>>

\* The answers of the file system to the steps of finalize.
FinalizeIos ==
    {FinalizeIo(create_dir, create, open) :
        create_dir \in IoResults, create \in IoResults, open \in IoResults}

\* The configurations a text index is built or opened with.
TextConfigs == {[phrase_matching |-> phrase_matching] :
                    phrase_matching \in PhraseMatching}

InitFinalize ==
    /\ storage = OpenBacking("DenseVolatile")
    /\ ret = Call("new", Ok(<<>>))
    /\ upd = NoUpdate
    /\ stopped = FALSE
    /\ max_written = -1
    /\ disk = NoFiles
    /\ \E config \in TextConfigs : \E is_on_disk \in BOOLEAN :
            builder = FullTextMmapIndexBuilder_new(config, is_on_disk)
    /\ given = [p \in Points |-> <<>>]
    /\ fs = NoDir
    /\ text_index = NoTextIndex

NextFinalize ==
    \/ \E id \in Points : \E values \in ValueLists :
            /\ builder # NoBuilder
            /\ given[id] = <<>>
            /\ AddMany(id, values, CalleesOk)
    \/ \E io \in FinalizeIos : Finalize(io)
    \/ \E config \in TextConfigs : \E is_on_disk \in BOOLEAN :
            \E io \in IoResults : MmapOpen(config, is_on_disk, io)
    \/ \E id \in Points : MmapRemovePoint(id)

\* A builder given values once per point, finalized, and the written path
\* opened and points removed from the opened index.
SpecFinalize == InitFinalize /\ [][NextFinalize]_vars

\* ------------------------------------------------------------ batch reads
\* A batch read as the last call: the keys, the length of the buffer and
\* whether assertions of the call were compiled in (get_dense_batch has
\* none).
BatchCall(op, keys, len, debug_assertions, res) ==
    [op |-> op, res |-> res, keys |-> keys, len |-> len,
     debug_assertions |-> debug_assertions]

\* `n` written offsets from `key` on, going up or down and wrapping around.
KeyRun(key, n, step) == [i \in 1..n |-> (key + step * (i - 1)) % Total]

\* The key lists read: the short runs, of up to MaxKeys keys, and the runs
\* of one key less than VECTOR_READ_BATCH_SIZE up to one key more.
BatchKeys ==
    IF Total = 0 THEN {<<>>}
    ELSE {KeyRun(key, n, step) :
            key \in 0..(Total - 1),
            n \in (0..MaxKeys) \cup ((VECTOR_READ_BATCH_SIZE - 1)
                                        ..(VECTOR_READ_BATCH_SIZE + 1)),
            step \in {1, Total - 1}}

\* The buffers handed in: as long as the key list, one slot shorter, one
\* slot longer.
BatchBuffers(keys) == {n \in (Len(keys) - 1)..(Len(keys) + 1) : n >= 0}

\* get_dense_batch(keys, vectors)
GetDenseBatch(keys, len) ==
    /\ ~upd.active
    /\ storage.variant \in DenseVariants
    /\ ret' = BatchCall("get_dense_batch", keys, len, FALSE,
                        DenseVectorStorage_get_dense_batch(storage, keys, len))
    /\ upd' = NoUpdate
    /\ UNCHANGED <<storage, stopped, max_written, disk, builder, given, fs, text_index>>

\* get_batch_multi(keys, vectors)
GetBatchMulti(keys, len, debug_assertions) ==
    /\ ~upd.active
    /\ storage.variant \in MultiDenseVariants
    /\ ret' = BatchCall("get_batch_multi", keys, len, debug_assertions,
                        MultiVectorStorage_get_batch_multi(storage, keys, len,
                                                           debug_assertions))
    /\ upd' = NoUpdate
    /\ UNCHANGED <<storage, stopped, max_written, disk, builder, given, fs, text_index>>

\* The batch reads are provided methods, the same for every implementer:
\* one dense and one multi-dense storage are read.
InitBatch ==
    /\ Init
    /\ storage.variant \in {"DenseVolatile", "MultiDenseVolatile"}

NextBatch ==
    \/ \E vector \in ValidInputs(storage) : InsertVector(Total, vector)
    \/ \E keys \in BatchKeys : \E len \in BatchBuffers(keys) :
            GetDenseBatch(keys, len)
    \/ \E keys \in BatchKeys : \E len \in BatchBuffers(keys) :
       \E debug_assertions \in BOOLEAN :
            GetBatchMulti(keys, len, debug_assertions)

\* A storage filled in offset order and read in batches, in a build with
\* debug assertions and in one without.
SpecBatch == InitBatch /\ [][NextBatch]_vars

\* ------------------------------------------------------ reading the state
Deleted(key) == VectorStorageEnum_is_deleted_vector(storage, key)

DeletedCount == VectorStorageEnum_deleted_vector_count(storage)

\* The record that fills the slots an insert beyond the total skips over.
DefaultRecord(st) ==
    CASE st.variant \in DenseVariants -> DefaultDense(st.dim)
      [] st.variant \in SparseVariants -> DefaultSparse
      [] st.variant \in MultiDenseVariants -> <<>>

\* ------------------------------------------------------------------ claims

\* C1: the first delete_vector(id) returns true, every later one returns
\* false, is_deleted_vector(id) holds from the first delete on, and a repeated
\* delete does not change deleted_vector_count().
C1_DeleteIdempotent ==
    \A key \in Keys : key <= Total =>
        LET first == VectorStorageEnum_delete_vector(storage, key)
            again == VectorStorageEnum_delete_vector(first.st, key)
        IN  /\ first.res = Ok(<<~Deleted(key)>>)
            /\ VectorStorageEnum_is_deleted_vector(first.st, key)
            /\ again.res = Ok(<<FALSE>>)
            /\ VectorStorageEnum_is_deleted_vector(again.st, key)
            /\ VectorStorageEnum_deleted_vector_count(again.st)
                   = VectorStorageEnum_deleted_vector_count(first.st)

\* A delete returned false: it was the second delete of an offset.
C1_Witness ==
    /\ ret = Call("delete_vector", Ok(<<FALSE>>))
    /\ \E key \in Keys : Deleted(key)

C3_TotalIsHighWater ==
    /\ [](Total = max_written + 1)
    /\ [][/\ VectorStorageEnum_total_vector_count(storage') >= Total
           /\ ret'.op = "delete_vector" =>
                  VectorStorageEnum_total_vector_count(storage') = Total
          ]_vars

\* Vectors were written, one of them is soft-deleted, and the last call
\* was a delete.
C3_Witness ==
    /\ Total >= 2
    /\ \E key \in Keys : key < Total /\ Deleted(key)
    /\ ret.op = "delete_vector"

C5_AvailableSaturates ==
    /\ available_vector_count(storage) \in Nat
    /\ available_vector_count(storage) =
          IF DeletedCount > Total THEN 0 ELSE Total - DeletedCount

\* More offsets are marked deleted than vectors are stored.
C5_Witness ==
    /\ DeletedCount > Total
    /\ Total > 0
    /\ available_vector_count(storage) = 0

\* C6 as stated: deleted_vector_count() is at most total_vector_count(),
\* also after a delete_vector on an offset at or beyond the total.
C6_DeletedAtMostTotal == DeletedCount <= Total

\* The offsets at or beyond the total whose deletion bit is set.
DeletedBeyondTotal ==
    {key \in 0..Len(VectorStorageEnum_deleted_vector_bitslice(storage)) :
        key >= Total /\ Deleted(key)}

\* C6: deleted_vector_count() is at most total_vector_count() plus the
\* number of deleted offsets at or beyond the total; it is at most the total
\* when no such offset was deleted.
C6_DeletedAtMostTotalPlusBeyond ==
    DeletedCount <= Total + Cardinality(DeletedBeyondTotal)

\* Every stored vector is deleted and so is the offset past the end.
C6_Witness ==
    /\ Total >= 2
    /\ DeletedCount = Total + 1
    /\ Cardinality(DeletedBeyondTotal) = 1

\* The offsets reads are tried on: every slot, and two past the cap.
ReadKeys == 0..(MaxTotal + 1)

\* C7: for id >= total_vector_count() get_vector_opt(id) is absent and
\* get_vector(id) panics; for id < total_vector_count() get_vector_opt(id) is
\* present and equals get_vector(id), soft-deleted or not.
C7_ReadPastEnd ==
    \A id \in ReadKeys :
        LET opt == VectorStorageEnum_get_vector_opt(storage, id)
            got == VectorStorageEnum_get_vector(storage, id)
        IN  IF id >= Total
            THEN opt = NoneVec /\ got = Panic
            ELSE opt.tag = "Some" /\ got.tag = "Some" /\ opt.v = got.v

\* A soft-deleted offset below the total is read, next to a live one.
C7_Witness ==
    /\ Total >= 2
    /\ Total < MaxTotal
    /\ \E id \in Keys : id < Total /\ Deleted(id) /\
          VectorStorageEnum_get_vector_opt(storage, id).v # DefaultRecord(storage)
    /\ \E id \in Keys : id < Total /\ ~Deleted(id)

\* The inputs C8 is about: a dense vector of another length than the
\* dimension, a sparse vector with unsorted or repeated indices or with
\* index and value lists of different length.
RejectedInput(st, vector) ==
    CASE st.variant \in DenseVariants -> Len(vector) # st.dim
      [] st.variant \in SparseVariants ->
            \/ Len(vector.indices) # Len(vector.values)
            \/ \E i, j \in 1..Len(vector.indices) :
                  i < j /\ vector.indices[i] >= vector.indices[j]
      [] st.variant \in MultiDenseVariants -> FALSE

\* C8: an insert_vector with invalid input returns an error and leaves
\* total_vector_count(), deleted_vector_count(), every is_deleted_vector(i)
\* and every get_vector(i) unchanged: the backing every one of these reads
\* from is the same as before the call.
C8_RejectedInsertChangesNothing ==
    \A key \in Keys : \A vector \in Inputs(storage) :
        (key <= Total + 1 /\ RejectedInput(storage, vector)) =>
            LET r == VectorStorageEnum_insert_vector(storage, key, vector)
            IN  /\ ~r.res.ok
                /\ r.st = storage
                /\ VectorStorageEnum_total_vector_count(r.st) = Total
                /\ VectorStorageEnum_deleted_vector_count(r.st) = DeletedCount

\* An insert was rejected on a storage that holds vectors and a deletion.
C8_Witness ==
    /\ ret.op = "insert_vector"
    /\ ~ret.res.ok
    /\ Total >= 2
    /\ DeletedCount >= 1
    /\ \E vector \in Inputs(storage) : RejectedInput(storage, vector)

\* The inputs a storage of this shape is meant to take.
WellFormedInput(st, vector) ==
    CASE st.variant \in DenseVariants -> Len(vector) = st.dim
      [] st.variant \in SparseVariants ->
            /\ Len(vector.indices) = Len(vector.values)
            /\ \A i, j \in 1..Len(vector.indices) :
                  i < j => vector.indices[i] < vector.indices[j]
      [] st.variant \in MultiDenseVariants ->
            /\ Len(vector) >= 1
            /\ \A i \in 1..Len(vector) : Len(vector[i]) = st.dim

UpdateFromKeepsWritten ==
    (upd.active /\ upd'.active) =>
        \A id \in Keys : id < Total =>
            /\ VectorStorageEnum_get_vector(storage', id)
                  = VectorStorageEnum_get_vector(storage, id)
            /\ VectorStorageEnum_is_deleted_vector(storage', id) = Deleted(id)

\* update_from returned s..s+k for the k yielded records, and offset s+i
\* holds the i-th yielded vector.
UpdateFromReturnsRange ==
    (ret'.op = "update_from" /\ ret'.res.ok /\ UpdateFromReturn) =>
        LET s == upd.start
            k == Len(upd.yielded)
        IN  /\ ret'.res.v = <<s, s + k>>
            /\ VectorStorageEnum_total_vector_count(storage') = s + k
            /\ \A i \in 1..k :
                  VectorStorageEnum_get_vector(storage', s + i - 1)
                    = SomeVec(upd.yielded[i].vector)

CancelledStep == upd.active /\ stopped /\ upd.more /\ ~upd'.active

\* A turn of the loop wrote a record.
WroteRecord == upd.active /\ upd'.active /\ upd'.yielded # upd.yielded

\* C11: when update_from polls the stopped flag and finds it set, it writes
\* nothing more and returns the cancellation error, an Err and not an Ok
\* range; the flag is polled between records only: a turn that starts
\* writing a record with the flag clear stores the whole record, so that the
\* total is always the start index plus the number of records consumed.
C11_CancelReturnsError ==
    /\ [](upd.active => Total = upd.start + Len(upd.yielded))
    /\ [][/\ (upd.active /\ stopped /\ upd.more) =>
                /\ storage' = storage
                /\ ~upd'.active
                /\ ~ret'.res.ok
                /\ ret' = Call("update_from", Err("Cancelled"))
          /\ WroteRecord =>
               LET rec == upd'.yielded[Len(upd'.yielded)]
               IN  /\ ~stopped
                   /\ VectorStorageEnum_total_vector_count(storage') = Total + 1
                   /\ VectorStorageEnum_get_vector(storage', Total)
                         = SomeVec(rec.vector)
                   /\ (rec.is_deleted =>
                         VectorStorageEnum_is_deleted_vector(storage', Total))
          ]_vars

\* update_from was cancelled before it wrote its first record, on a
\* storage that holds vectors.
C11_Witness ==
    /\ ret = Call("update_from", Err("Cancelled"))
    /\ upd.yielded = <<>>
    /\ upd.start >= 1
    /\ Total = upd.start

ReadsOf(st, top) ==
    [total   |-> VectorStorageEnum_total_vector_count(st),
     deleted |-> VectorStorageEnum_deleted_vector_count(st),
     flags   |-> [i \in 0..top |-> VectorStorageEnum_is_deleted_vector(st, i)],
     live    |-> [i \in {k \in 0..(VectorStorageEnum_total_vector_count(st) - 1) :
                            ~VectorStorageEnum_is_deleted_vector(st, k)} |->
                     VectorStorageEnum_get_vector(st, i)]]

\* Every offset either bit field can speak of, and one past.
TopOffset == Max(Len(storage.deleted), Len(storage'.deleted)) + MaxTotal

\* C13: when the flusher was invoked after the last write and the storage is
\* then opened again from its files, the reopened storage gives the same
\* total_vector_count(), the same deleted_vector_count(), the same
\* is_deleted_vector(i) for every i and the same get_vector(i) for every
\* offset that is not deleted; invoking the flusher itself changes none of
\* these.
C13_RoundTrip ==
    [][ /\ (ret.op = "flusher" /\ ret'.op = "open") =>
                ReadsOf(storage', TopOffset) = ReadsOf(storage, TopOffset)
        /\ ret'.op = "flusher" => storage' = storage ]_vars

\* A storage reopened from flushed files that hold two vectors, one of them
\* deleted and the other a live vector with a non-zero element.
C13_Witness ==
    /\ ret.op = "open"
    /\ Total = 2
    /\ VectorStorageEnum_deleted_vector_count(storage) = 1
    /\ \E i \in 0..1 :
            /\ ~Deleted(i)
            /\ VectorStorageEnum_get_vector(storage, i)
                    # VectorStorageEnum_get_vector(storage, 1 - i)

\* ------------------------------------------------------------------- C14
\* Every offset a delete of `key` could touch: the slots, and the bits the
\* bitmap gains when it grows by doubling.
FrameOffsets == 0..(2 * MaxTotal + 1)

\* C14: delete_vector(id) with id < total_vector_count() leaves
\* total_vector_count() as it was, get_vector(id) returns the same vector as
\* before, and get_vector and is_deleted_vector of every other offset are
\* unchanged; a step in which delete_vector returned changed no vector and
\* not the total.
C14_DeleteOnlyMarks ==
    /\ [](\A key \in Keys : key < Total =>
            LET r == VectorStorageEnum_delete_vector(storage, key)
            IN  /\ r.res.ok
                /\ VectorStorageEnum_total_vector_count(r.st) = Total
                /\ \A i \in 0..(Total - 1) :
                        VectorStorageEnum_get_vector(r.st, i)
                            = VectorStorageEnum_get_vector(storage, i)
                /\ \A i \in FrameOffsets \ {key} :
                        VectorStorageEnum_is_deleted_vector(r.st, i)
                            = Deleted(i)
                /\ VectorStorageEnum_is_deleted_vector(r.st, key))
    /\ [][ret'.op = "delete_vector" =>
            /\ Total' = Total
            /\ \A i \in 0..(Total - 1) :
                    VectorStorageEnum_get_vector(storage', i)
                        = VectorStorageEnum_get_vector(storage, i)]_vars

\* delete_vector has just marked an offset below the total whose vector is
\* still read back, next to a live offset holding a different vector.
C14_Witness ==
    /\ ret = Call("delete_vector", Ok(<<TRUE>>))
    /\ \E key, other \in 0..(Total - 1) :
            /\ Deleted(key)
            /\ ~Deleted(other)
            /\ VectorStorageEnum_get_vector(storage, key)
                    # VectorStorageEnum_get_vector(storage, other)

\* ------------------------------------------------------------- C15, C16
IsBatchRead == ret.op \in {"get_dense_batch", "get_batch_multi"}

\* What the single reads give for the keys of the last batch read.
SingleReads ==
    [i \in 1..Len(ret.keys) |->
        IF ret.op = "get_dense_batch"
        THEN Dense_get_dense(storage, ret.keys[i])
        ELSE MultiDense_get_multi(storage, ret.keys[i])]

\* C15 as stated: a batch read with a buffer as long as the key list returns
\* one entry per key, the i-th equal to the single read of the i-th key,
\* for any key list.
C15_BatchEquivalence ==
    (IsBatchRead /\ ret.len = Len(ret.keys)) => ret.res = SomeVec(SingleReads)

\* C15, amended: get_dense_batch with a buffer as long as the key list
\* returns one entry per key, the i-th equal to get_dense of the i-th key;
\* get_batch_multi does the same for get_multi when the list has at most
\* VECTOR_READ_BATCH_SIZE keys or the build has no debug assertions, and
\* panics on a longer list in a build with debug assertions.
C15_BatchEquivalenceCapped ==
    (IsBatchRead /\ ret.len = Len(ret.keys)) =>
        IF /\ ret.op = "get_batch_multi"
           /\ ret.debug_assertions
           /\ Len(ret.keys) > VECTOR_READ_BATCH_SIZE
        THEN ret.res = Panic
        ELSE ret.res = SomeVec(SingleReads)

\* get_batch_multi, in a build with debug assertions, has returned the
\* multivectors of VECTOR_READ_BATCH_SIZE keys; and the storage holds two
\* different multivectors.
C15_Witness ==
    /\ ret.op = "get_batch_multi"
    /\ ret.debug_assertions
    /\ ret.len = VECTOR_READ_BATCH_SIZE
    /\ ret.res.tag = "Some"
    /\ Len(ret.res.v) = VECTOR_READ_BATCH_SIZE
    /\ ret.res.v[1] # ret.res.v[2]

\* C16 as stated: a batch read never yields more than
\* VECTOR_READ_BATCH_SIZE vectors and never more than the buffer holds.
C16_BatchCapped ==
    (IsBatchRead /\ ret.res.tag = "Some") =>
        /\ Len(ret.res.v) <= VECTOR_READ_BATCH_SIZE
        /\ Len(ret.res.v) <= ret.len

\* C16, amended: a batch read yields the single reads of the first
\* min(|keys|, buffer length) keys, so never more than the buffer holds;
\* only get_batch_multi in a build with debug assertions never yields more
\* than VECTOR_READ_BATCH_SIZE vectors, and never fewer than the keys given.
C16_BatchPrefix ==
    (IsBatchRead /\ ret.res.tag = "Some") =>
        /\ ret.res.v = SubSeq(SingleReads, 1, Min(Len(ret.keys), ret.len))
        /\ Len(ret.res.v) <= ret.len
        /\ (ret.op = "get_batch_multi" /\ ret.debug_assertions) =>
                /\ Len(ret.res.v) <= VECTOR_READ_BATCH_SIZE
                /\ Len(ret.res.v) = Len(ret.keys)

\* get_dense_batch was given more keys than VECTOR_READ_BATCH_SIZE and a
\* buffer of VECTOR_READ_BATCH_SIZE slots, and filled the buffer.
C16_Witness ==
    /\ ret.op = "get_dense_batch"
    /\ Len(ret.keys) > VECTOR_READ_BATCH_SIZE
    /\ ret.len = VECTOR_READ_BATCH_SIZE
    /\ ret.res.tag = "Some"
    /\ Len(ret.res.v) = ret.len

C18_PopulateClearCache ==
    /\ [](ret.op \in {"populate", "clear_cache"} =>
            IF storage.variant \in SimpleVariants \cup VolatileVariants
            THEN ~ret.called /\ ret.res = Ok(<<>>)
            ELSE ret.called /\ ret.res = ret.io)
    /\ [][ret'.op \in {"populate", "clear_cache"} => storage' = storage]_vars

\* populate() on a memory-mapped storage that holds a vector has returned
\* the error of the backing.
C18_Witness ==
    /\ ret.op = "populate"
    /\ storage.variant = "SparseMmap"
    /\ ret.called
    /\ ret.res = Err("Io")
    /\ Total >= 1
    /\ VectorStorageEnum_deleted_vector_count(storage) >= 1

\* ------------------------------------------------------------- C19, C20
\* The token stream of the values of one add_many call.
CallTokens(values) ==
    Flatten([i \in 1..Len(values) |-> Tokenizer_tokenize_doc(values[i])])

\* The token stream of all values passed for the point since it was last
\* removed, call after call.
GivenTokens(point) ==
    Flatten([c \in 1..Len(given[point]) |-> CallTokens(given[point][c])])

\* The point is indexed: add_many was called for it with a value since it
\* was last removed.
Indexed(point) == \E c \in 1..Len(given[point]) : given[point][c] # <<>>

\* The values of the last add_many call for the point that had values.
LastValues(point) ==
    given[point][CHOOSE c \in 1..Len(given[point]) :
                    /\ given[point][c] # <<>>
                    /\ \A d \in (c + 1)..Len(given[point]) :
                            given[point][d] = <<>>]

Vocab == builder.mutable_index.vocab

TokenIds == 0..(Len(Vocab) - 1)

\* The token ids of a token stream.
IdsOf(str_tokens) ==
    [i \in 1..Len(str_tokens) |-> TokenId(Vocab, str_tokens[i])]

\* The position list recorded for the token in the point; none is empty.
Positions(token, point) ==
    IF <<token, point>> \in DOMAIN builder.mutable_index.positions
    THEN builder.mutable_index.positions[<<token, point>>]
    ELSE <<>>

StrictlyAscending(list) ==
    \A i, j \in 1..Len(list) : i < j => list[i] < list[j]

NothingRecorded ==
    /\ builder.mutable_index.point_to_doc.tag = "None"
    /\ DOMAIN builder.mutable_index.positions = {}

\* The positions and the document recorded for the point are those of the
\* token stream `document`.
RecordedAs(point, document) ==
    /\ builder.mutable_index.point_to_doc.tag = "Some"
    /\ point \in DOMAIN builder.mutable_index.point_to_doc.v
    /\ builder.mutable_index.point_to_doc.v[point] = document
    /\ \A t \in TokenIds :
            /\ Positions(t, point) = PlacesOf(document, t, 1)
            /\ StrictlyAscending(Positions(t, point))

RECURSIVE FirstSeen(_, _)
FirstSeen(vocab, str_tokens) ==
    IF str_tokens = <<>> THEN <<>>
    ELSE IF \E i \in 1..Len(vocab) : vocab[i] = Head(str_tokens)
         THEN FirstSeen(vocab, Tail(str_tokens))
         ELSE <<Head(str_tokens)>>
                \o FirstSeen(Append(vocab, Head(str_tokens)), Tail(str_tokens))

\* The step is add_many(id, values).
IsAddMany(id, values) ==
    /\ ret'.op = "add_many"
    /\ given' = [given EXCEPT ![id] = Append(@, values)]

\* C21: no token has two ids; an add_many call gives the tokens it sees for
\* the first time the next ids, in the order they first appear in its
\* values, and leaves every id assigned before as it was; remove_point
\* leaves every id as it was.
C21_TokenIdStability ==
    /\ [](\A i, j \in 1..Len(Vocab) : Vocab[i] = Vocab[j] => i = j)
    /\ [][ /\ \A id \in Points : \A values \in ValueLists :
                  (IsAddMany(id, values) =>
                      builder'.mutable_index.vocab
                          = Vocab \o FirstSeen(Vocab, CallTokens(values)))
           /\ (ret'.op = "remove_point" =>
                  builder'.mutable_index.vocab = Vocab) ]_vars

\* The ids 0, 1, 2 went to "b", "c", "a" in a call that was later undone by
\* remove_point, and a later call that saw "a" and "b" again added none.
C21_Witness ==
    /\ Vocab = <<<<"b">>, <<"c">>, <<"a">>>>
    /\ \E t \in TokenIds : builder.mutable_index.postings[t + 1] = {}
    /\ \E point \in Points : given[point] = <<<<TextABA>>>>

\* ------------------------------------------------------------------- C22
\* The document recorded for the point, if documents are recorded and the
\* point has one.
DocumentOf(index, point) ==
    IF index.point_to_doc.tag = "Some" /\ point \in DOMAIN index.point_to_doc.v
    THEN SomeVec(index.point_to_doc.v[point])
    ELSE NoneVec

\* The positions recorded for the point, by token.
PositionsOf(index, point) ==
    [pair \in {q \in DOMAIN index.positions : q[2] = point} |->
        index.positions[pair]]

\* C22: remove_point(id) on the builder returns Ok for every id, indexed or
\* not; afterwards id is in no postings list and has no document and no
\* positions, every postings list holds the other points it held, the
\* document and positions of every other point are as before, and the
\* vocabulary is as before.
C22_RemovePointFrame ==
    \A id \in Points :
        LET r     == FullTextMmapIndexBuilder_remove_point(builder, id)
            before == builder.mutable_index
            after  == r.b.mutable_index
        IN  /\ r.res = Ok(<<>>)
            /\ after.vocab = before.vocab
            /\ Len(after.postings) = Len(before.postings)
            /\ \A t \in 1..Len(before.postings) :
                    after.postings[t] = before.postings[t] \ {id}
            /\ DocumentOf(after, id) = NoneVec
            /\ DOMAIN PositionsOf(after, id) = {}
            /\ \A other \in Points \ {id} :
                    /\ DocumentOf(after, other) = DocumentOf(before, other)
                    /\ PositionsOf(after, other) = PositionsOf(before, other)
            /\ r.b.config = builder.config

\* remove_point has returned for a point that shared a token with another
\* point, which still has its postings, its document and its positions.
C22_Witness ==
    /\ ret = Call("remove_point", Ok(<<>>))
    /\ \E id, other \in Points :
            /\ id # other
            /\ given[id] = <<>>
            /\ Indexed(other)
            /\ DocumentOf(builder.mutable_index, other) # NoneVec
            /\ DOMAIN PositionsOf(builder.mutable_index, other) # {}
            /\ \E t \in TokenIds :
                    builder.mutable_index.postings[t + 1] = {other}
            /\ \E t \in TokenIds : builder.mutable_index.postings[t + 1] = {}

\* The points of a postings array.
PostingsSet(postings) == {postings[i] : i \in 1..Len(postings)}

\* finalize was the last call and it succeeded.
FinalizeOk == ret.op = "finalize" /\ ret.res.ok

\* finalize was the last call and it failed.
FinalizeErr == ret.op = "finalize" /\ ~ret.res.ok

\* The immutable index holds what the finalized builder held.
HoldsBuilder(immutable, b) ==
    /\ immutable.vocab = b.mutable_index.vocab
    /\ Len(immutable.postings) = Len(b.mutable_index.postings)
    /\ \A t \in 1..Len(immutable.postings) :
            /\ PostingsSet(immutable.postings[t]) = b.mutable_index.postings[t]
            /\ StrictlyAscending(immutable.postings[t])
    /\ immutable.positions = b.mutable_index.positions

\* C23: a successful finalize returns the mmap-backed index exactly when the
\* builder was created with is_on_disk = true, and otherwise the immutable
\* in-memory index with the mmap form of the same immutable index attached
\* as its storage; in both modes the files are on disk afterwards.
C23_FinalizeVariant ==
    FinalizeOk =>
        /\ text_index.variant = "Mmap" <=> ret.b.is_on_disk
        /\ text_index.variant = "Immutable" <=> ~ret.b.is_on_disk
        /\ text_index.variant = "Mmap" =>
                HoldsBuilder(text_index.mmap_index.inverted_index.content, ret.b)
        /\ text_index.variant = "Immutable" =>
                /\ HoldsBuilder(text_index.inverted_index, ret.b)
                /\ text_index.storage.inverted_index.content
                        = text_index.inverted_index
        /\ fs.dir
        /\ fs.content # <<>>
        /\ HoldsBuilder(fs.content, ret.b)
        /\ MmapInvertedIndex_file_set(fs.content.has_positions)
                \subseteq fs.files

\* A hybrid-mode builder with positions and two tokens of one point was
\* finalized.
C23_Witness ==
    /\ FinalizeOk
    /\ text_index.variant = "Immutable"
    /\ Len(text_index.inverted_index.vocab) >= 2
    /\ "positions.dat" \in fs.files
    /\ \E t \in 1..Len(text_index.inverted_index.postings) :
            text_index.inverted_index.postings[t] # <<>>

\* C24: when a step of finalize fails, the builder is consumed, an error is
\* returned, and neither files nor a directory created by the call remain
\* under the path.
C24_FailedFinalizeLeavesNothing ==
    FinalizeErr =>
        /\ builder = NoBuilder
        /\ text_index = NoTextIndex
        /\ fs = ret.dir

\* The mmap index inside a returned text index.
MmapIndexOf(index) ==
    IF index.variant = "Mmap" THEN index.mmap_index ELSE index.storage

\* C28: the reopen inside finalize uses the parameters MmapFullTextIndex::open
\* computes for the same configuration: for every phrase_matching value and
\* every is_on_disk value both use populate = not is_on_disk and
\* has_positions = (phrase_matching is true), and has_positions is the
\* positions flag the builder's mutable index was created with.
C28_ReopenParameters ==
    /\ \A config \in TextConfigs : \A is_on_disk \in BOOLEAN :
            LET of_finalize ==
                    FullTextMmapIndexBuilder_finalize_params(config, is_on_disk)
                of_open == MmapFullTextIndex_open_params(config, is_on_disk)
                created == FullTextMmapIndexBuilder_new(config, is_on_disk)
            IN  /\ of_finalize = of_open
                /\ of_finalize.populate = ~is_on_disk
                /\ of_finalize.has_positions
                        = (/\ config.phrase_matching.tag = "Some"
                           /\ config.phrase_matching.v)
                /\ of_finalize.has_positions
                        = (created.mutable_index.point_to_doc.tag = "Some")
    /\ builder # NoBuilder =>
            FullTextMmapIndexBuilder_finalize_params(
                    builder.config, builder.is_on_disk).has_positions
                = (builder.mutable_index.point_to_doc.tag = "Some")
    /\ FinalizeOk =>
            LET opened == MmapIndexOf(text_index).inverted_index
                of_open == MmapFullTextIndex_open_params(ret.b.config,
                                                         ret.b.is_on_disk)
            IN  /\ opened.populate = of_open.populate
                /\ opened.has_positions = of_open.has_positions
                /\ opened.has_positions
                        = (ret.b.mutable_index.point_to_doc.tag = "Some")

\* A builder with phrase_matching = Some(false) in on-disk mode was
\* finalized: the reopened index has no positions and was not populated.
C28_Witness ==
    /\ FinalizeOk
    /\ ret.b.config.phrase_matching = SomeVec(FALSE)
    /\ ret.b.is_on_disk
    /\ ~text_index.mmap_index.inverted_index.has_positions
    /\ ~text_index.mmap_index.inverted_index.populate
    /\ Len(ret.b.mutable_index.vocab) > 0

\* The steps of finalize in the order of the code.
FinalizeSteps == <<"from", "create_dir_all", "create", "open">>

\* The step was run by the last finalize.
Ran(step) == \E i \in 1..Len(ret.steps) : ret.steps[i] = step

\* C29: finalize runs convert, create directory, write, reopen in this order;
\* the mmap form is opened only when the write succeeded, the write is
\* attempted only when the directory was created, and a failure of any step
\* returns an error and no index.
C29_FinalizeOrder ==
    ret.op = "finalize" =>
        /\ Len(ret.steps) >= 1
        /\ ret.steps = SubSeq(FinalizeSteps, 1, Len(ret.steps))
        /\ Ran("open") => ret.io.create.ok
        /\ Ran("create") => ret.io.create_dir_all.ok
        /\ ~ret.io.create_dir_all.ok => fs = ret.dir
        /\ ~ret.io.create.ok => fs.content = ret.dir.content
        /\ (\/ ~ret.io.create_dir_all.ok
            \/ ~ret.io.create.ok
            \/ ~ret.io.open.ok) => ~ret.res.ok
        /\ ~ret.res.ok => text_index = NoTextIndex
        /\ ret.res.ok => ret.steps = FinalizeSteps

\* The write failed in a finalize whose reopen would have succeeded: the
\* reopen was not run.
C29_Witness ==
    /\ FinalizeErr
    /\ ret.steps = <<"from", "create_dir_all", "create">>
    /\ ret.io.open.ok
    /\ Len(ret.b.mutable_index.vocab) > 0

\* C25: remove_point(id) on an opened MmapFullTextIndex only sets the deletion
\* bit of id: vocabulary, postings and positions are unchanged, and files()
\* reports the same files.
C25_MmapRemoveOnlyMarks ==
    ret.op = "mmap_remove_point" =>
        LET before == ret.before.inverted_index
            after  == text_index.mmap_index.inverted_index
        IN  /\ after.deleted = before.deleted \cup {ret.id}
            /\ after.content.vocab = before.content.vocab
            /\ after.content.postings = before.content.postings
            /\ after.content.positions = before.content.positions
            /\ after.content = before.content
            /\ after.populate = before.populate
            /\ after.has_positions = before.has_positions
            /\ MmapFullTextIndex_files(text_index.mmap_index)
                    = MmapFullTextIndex_files(ret.before)
            /\ fs.content = before.content

\* A point that is in a postings array was removed from the opened index
\* and is still in that array.
C25_Witness ==
    /\ ret.op = "mmap_remove_point"
    /\ ret.id \notin ret.before.inverted_index.deleted
    /\ text_index.mmap_index.inverted_index.deleted = {ret.id}
    /\ text_index.mmap_index.inverted_index.has_positions
    /\ \E t \in 1..Len(text_index.mmap_index.inverted_index.content.postings) :
            ret.id \in PostingsSet(
                text_index.mmap_index.inverted_index.content.postings[t])

\* The ids of the tokens under a vocabulary that holds each of them.
IdsIn(vocab, str_tokens) ==
    [i \in 1..Len(str_tokens) |->
        (CHOOSE k \in 1..Len(vocab) : vocab[k] = str_tokens[i]) - 1]

\* The postings after the call are those before it, with an empty list for
\* each token the call registered.
PostingsKept(before, after) ==
    /\ Len(after.postings) = Len(after.vocab)
    /\ \A t \in 1..Len(after.postings) :
            after.postings[t] = IF t <= Len(before.postings)
                                THEN before.postings[t]
                                ELSE {}

\* C30: add_many with an empty value list changes nothing and returns Ok; with
\* a non-empty list all tokens are registered first, then the document is
\* recorded (only with phrase matching on), then the token set is indexed;
\* when recording or indexing fails, the error is returned, the newly
\* assigned token ids stay registered and the earlier steps are not undone.
C30_AddManySteps ==
    builder # NoBuilder =>
    \A id \in Points : \A values \in ValueLists : \A io \in CalleeAnswers :
        LET r == FullTextMmapIndexBuilder_add_many(builder, id, values, io)
            before == builder.mutable_index
            after == r.b.mutable_index
            registered == Vocab \o FirstSeen(Vocab, CallTokens(values))
            tokens == IdsIn(registered, CallTokens(values))
            with_doc == before.point_to_doc.tag = "Some"
            doc_failed == with_doc /\ ~io.index_document.ok
        IN  /\ values = <<>> => (r.b = builder /\ r.res = Ok(<<>>))
            /\ values # <<>> =>
                /\ after.vocab = registered
                /\ r.b.config = builder.config
                /\ doc_failed =>
                    /\ r.res = io.index_document
                    /\ DocumentOf(after, id) = DocumentOf(before, id)
                    /\ after.positions = before.positions
                    /\ PostingsKept(before, after)
                /\ (~doc_failed /\ ~io.index_tokens.ok) =>
                    /\ r.res = io.index_tokens
                    /\ with_doc => DocumentOf(after, id) = SomeVec(tokens)
                    /\ PostingsKept(before, after)
                /\ (~doc_failed /\ io.index_tokens.ok) =>
                    /\ r.res = Ok(<<>>)
                    /\ with_doc => DocumentOf(after, id) = SomeVec(tokens)
                    /\ \A i \in 1..Len(tokens) :
                            id \in after.postings[tokens[i] + 1]
                /\ ~with_doc =>
                    /\ after.point_to_doc = NoneVec
                    /\ DOMAIN after.positions = {}

\* The one call made so far failed in index_tokens after the document was
\* recorded: the tokens are registered, the document is there, the postings
\* are empty.
C30_Witness ==
    /\ ret.op = "add_many"
    /\ ~ret.res.ok
    /\ Vocab = <<<<"a">>, <<"b">>>>
    /\ \A t \in 1..Len(builder.mutable_index.postings) :
            builder.mutable_index.postings[t] = {}
    /\ \E point \in Points :
            /\ given[point] = <<<<TextABA>>>>
            /\ DocumentOf(builder.mutable_index, point) = SomeVec(<<0, 1, 0>>)

\* The last call asked for the size in bytes.
SizeAsked == ret.op = "size_of_available_vectors_in_bytes"

WrappedTotal(st) ==
    CASE st.variant \in DenseVariants -> Dense_total_vector_count(st)
      [] st.variant \in SparseVariants -> Sparse_total_vector_count(st)
      [] st.variant \in MultiDenseVariants -> MultiDense_total_vector_count(st)

WrappedGetOpt(st, key) ==
    CASE st.variant \in DenseVariants -> Dense_get_vector_opt(st, key)
      [] st.variant \in SparseVariants -> Sparse_get_vector_opt(st, key)
      [] st.variant \in MultiDenseVariants -> MultiDense_get_vector_opt(st, key)

WrappedInsert(st, key, vector) ==
    CASE st.variant \in DenseVariants -> Dense_insert_vector(st, key, vector)
      [] st.variant \in SparseVariants -> Sparse_insert_vector(st, key, vector)
      [] st.variant \in MultiDenseVariants ->
            MultiDense_insert_vector(st, key, vector)

============================================================================
